---- MODULE Spec2Model ----
(***************************************************************************)
(* Model of the hybrid address-range allocator (package hybrid):           *)
(*   BuddyAllocator / BuddyRegion  src/hybrid/buddy.go                     *)
(*   SlabAllocator / Slab          src/hybrid/slab.go                      *)
(*   Allocator                     src/hybrid/allocator.go                 *)
(*                                                                         *)
(* The address space is scaled down.  Sizes and addresses are counted in   *)
(* model units: BuddyStartSize (1 MiB in the code) is 4 units, the 4 KiB   *)
(* alignment grain is 2 units, and the buddy forest has buddyRegionCount   *)
(* = 2 regions of order MaxOrder - 1          (the code: 8 regions of    *)
(* order 17 = MaxOrder - 3).  All relations between the constants that the *)
(* code relies on are kept: SlabMaxSize = BuddyStartSize, MaxBlockSize =   *)
(* BuddyStartSize << MaxOrder, MaxBlockSize / buddyRegionCount is a power  *)
(* of two times BuddyStartSize, and the largest request of the callers     *)
(* (MaxRequest, 4 MiB = 4 * BuddyStartSize) still fits into one region.    *)
(*                                                                         *)
(* Every public operation runs under the mutex of its layer, so it is one  *)
(* atomic action; the merge goroutine of a region is a process of its own  *)
(* (MergeRecv, MergeApply).  The operations are written as operators on a  *)
(* state record st = [regions, cache] so that claims about "the state      *)
(* before and after a call" are state predicates.                          *)
(***************************************************************************)
EXTENDS Integers, Sequences, FiniteSets, TLC

\* ------------------------------------------------------------ constants
BuddyStartSize == 4
SlabMaxSize == 4
MaxOrder == 3
MaxBlockSize == 32
buddyRegionCount == 2
mergeBatchSize == 1
\* 4 KiB, the alignment grain of returned addresses
MinBlockSize == 2
\* 4 MiB, the largest request of the callers' contract
MaxRequest == 16
\* stands for 2^64: uint64 arithmetic wraps modulo UintMod
UintMod == 1048576
\* package mpool: the number of slots of each size class
SmallPoolSize == 1
MediumPoolSize == 2
LargePoolSize == 1
\* package mpool: the largest request of each size class, 64 KiB, 1 MiB, 4 MiB
SmallClassMax == 2
MediumClassMax == 4
LargeClassMax == 16

\* ------------------------------------------------------------ bounds
\* the callers hold at most MaxLive allocations at a time
MaxLive == 3
\* the number of caller threads whose lock steps are interleaved
NumCallers == 2
\* the callers make at most MaxCalls calls of Allocate and Free
MaxCalls == 6
\* how many consecutive calls of Allocate with one size a claim tries on a state
MaxConsecutive == 3

\* request sizes the callers pass to Allocate: slab sizes 1 (four cells in a
\* slab) and 4 (one cell), buddy sizes 12 (3 times BuddyStartSize), 16 (4 times),
\* 20 (5 times, above MaxRequest), and 40 (above MaxBlockSize)
RequestSizes == {1, 4, 12, 16, 20, 40}

\* ------------------------------------------------------------ errors
ErrNone == "ok"
ErrSizeTooLarge == "ErrSizeTooLarge"
ErrNoSpaceAvailable == "ErrNoSpaceAvailable"
ErrInvalidAddress == "ErrInvalidAddress"
ErrBlockNotFound == "ErrBlockNotFound"
ErrAddressNotAllocated == "ErrAddressNotAllocated"
ErrAddressAlreadyAllocated == "ErrAddressAlreadyAllocated"
Panic == "panic"

\* ------------------------------------------------------------ helpers
\* the element of a set of one element; a value that later steps use several
\* times is bound through such a set, so that it is computed once
Only(S) == CHOOSE x \in S : TRUE

Min(S) == CHOOSE x \in S : \A y \in S : x <= y

Range(s) == {s[i] : i \in 1..Len(s)}

RemoveAt(s, i) == SubSeq(s, 1, i - 1) \o SubSeq(s, i + 1, Len(s))

\* index of the first element of s equal to x (x occurs in s)
IndexOf(s, x) == Min({i \in 1..Len(s) : s[i] = x})

\* A Go map start -> size is the set of its entries [start, size].
MapHas(m, k) == \E e \in m : e.start = k

MapGet(m, k) == (CHOOSE e \in m : e.start = k).size

MapRemove(m, k) == {e \in m : e.start # k}

MapPut(m, k, v) == {e \in m : e.start # k} \cup {[start |-> k, size |-> v]}

RECURSIVE SumOver(_, _)
SumOver(f, S) ==
  IF S = {} THEN 0
  ELSE LET x == CHOOSE y \in S : TRUE IN f[x] + SumOver(f, S \ {x})

RECURSIVE SeqSum(_)
SeqSum(s) == IF s = <<>> THEN 0 ELSE Head(s) + SeqSum(Tail(s))

\* uint64 arithmetic
U64(x) == x % UintMod

\* int(x) of a uint64 x: the same bits read as a signed integer
ToInt(x) == IF x >= UintMod \div 2 THEN x - UintMod ELSE x

\* a / b of Go for b > 0: the quotient is truncated toward zero
TruncDiv(a, b) == IF a >= 0 THEN a \div b ELSE -((-a) \div b)

\* int(math.Log2(n)) for an integer n >= 1
RECURSIVE FloorLog2(_)
FloorLog2(n) == IF n <= 1 THEN 0 ELSE 1 + FloorLog2(n \div 2)

\* a ^ bit for a mask with a single bit set
XorBit(a, bit) == IF (a \div bit) % 2 = 1 THEN a - bit ELSE a + bit

\* ------------------------------------------------------------ state
VARIABLES
  regions,   \* BuddyAllocator.regions: region index -> BuddyRegion
  runReq,    \* per region, the MergeRequest its goroutine has received and not yet merged
  cache,     \* SlabAllocator.cache: cell size -> sequence of Slab (the slabs of s.slabs)
  live,      \* the allocations the callers hold: records [addr, size]
  last,      \* the last call of a caller and its result
  calls,     \* the number of calls the callers have made
  pool,      \* the MemoryPool: slot arrays and statistics
  held,      \* the allocations the callers of the pool hold: [addr, size, hit]
  stack,     \* per caller thread, its call stack: frames [pc, i], innermost first
  run,       \* per region, where its goroutine run() stands
  queued,    \* per region, the number of requests in mergeChan
  mu,        \* MemoryPool.mu: the thread that holds it, 0 if none
  slabMutex, \* SlabAllocator.mutex: [w, r], the writer (0 if none) and the readers
  regionMutex \* per region, BuddyRegion.mutex: [w, r]

dataVars == <<regions, runReq, cache, live, last, calls, pool, held>>
lockVars == <<stack, run, queued, mu, slabMutex, regionMutex>>
vars == <<regions, runReq, cache, live, last, calls, pool, held,
          stack, run, queued, mu, slabMutex, regionMutex>>

RegionIds == 0..(buddyRegionCount - 1)
Orders == 0..MaxOrder
CellSizes == 1..SlabMaxSize

\* the allocator state the operations work on
St == [regions |-> regions, cache |-> cache]

\* ------------------------------------------------------------ buddy
\* getOrder: round up to a multiple of BuddyStartSize, then int(math.Log2(.))
getOrder(size) ==
  IF size < BuddyStartSize THEN 0
  ELSE FloorLog2((((size + BuddyStartSize - 1) \div BuddyStartSize) * BuddyStartSize)
                 \div BuddyStartSize)

BlockSize(order) == (2 ^ order) * BuddyStartSize

\* a NewBuddyAllocator that gives only region 0 its free block
NewBuddyAllocator_OneRegion ==
  [i \in RegionIds |->
    LET regionSize == MaxBlockSize \div buddyRegionCount
        startAddr == i * regionSize
        endAddr == IF i = buddyRegionCount - 1 THEN MaxBlockSize ELSE startAddr + regionSize
        order == getOrder(endAddr - startAddr)
    IN [blocks |-> [o \in Orders |-> IF o = order /\ i = 0 THEN <<startAddr>> ELSE <<>>],
        allocated |-> {},
        used |-> 0,
        startAddr |-> startAddr,
        endAddr |-> endAddr,
        mergeChan |-> <<>>]]

\* NewBuddyAllocator: one free block per region, of the order of the region size
NewBuddyAllocator ==
  [i \in RegionIds |->
    LET regionSize == MaxBlockSize \div buddyRegionCount
        startAddr == i * regionSize
        endAddr == IF i = buddyRegionCount - 1 THEN MaxBlockSize ELSE startAddr + regionSize
        order == getOrder(endAddr - startAddr)
    IN [blocks |-> [o \in Orders |-> IF o = order THEN <<startAddr>> ELSE <<>>],
        allocated |-> {},
        used |-> 0,
        startAddr |-> startAddr,
        endAddr |-> endAddr,
        mergeChan |-> <<>>]]

\* BuddyRegion.allocate
RegionAllocate(r, size) ==
  LET order == getOrder(size) IN
  IF order > MaxOrder THEN [reg |-> r, addr |-> 0, err |-> ErrSizeTooLarge]
  ELSE
    LET cand == {i \in order..MaxOrder : r.blocks[i] # <<>>} IN
    IF cand = {} THEN [reg |-> r, addr |-> 0, err |-> ErrNoSpaceAvailable]
    ELSE
      LET i == Min(cand)
          start == Head(r.blocks[i])
          popped == [r.blocks EXCEPT ![i] = Tail(@)]
          split == [j \in Orders |->
                      IF j >= order /\ j < i
                        THEN <<start + (2 ^ j) * BuddyStartSize>> \o popped[j]
                        ELSE popped[j]]
          size2 == BlockSize(order)
      IN IF MapHas(r.allocated, start)
           THEN [reg |-> [r EXCEPT !.blocks = popped], addr |-> 0, err |-> Panic]
           ELSE [reg |-> [r EXCEPT !.blocks = split,
                                   !.allocated = MapPut(@, start, size2),
                                   !.used = U64(@ + size2)],
                 addr |-> start, err |-> ErrNone]

\* an Allocate that gives up when region 0 cannot serve the request
BuddyAllocate_FirstRegion(regs, size) ==
  LET res == RegionAllocate(regs[0], size) IN
  IF res.err = ErrNone \/ res.err = Panic
    THEN [regions |-> [regs EXCEPT ![0] = res.reg], addr |-> res.addr, err |-> res.err]
    ELSE [regions |-> regs, addr |-> 0, err |-> ErrNoSpaceAvailable]

\* BuddyAllocator.Allocate: the first region that can serve the request
RECURSIVE BuddyAllocateFrom(_, _, _)
BuddyAllocateFrom(regs, size, i) ==
  IF i >= buddyRegionCount
    THEN [regions |-> regs, addr |-> 0, err |-> ErrNoSpaceAvailable]
    ELSE LET res == RegionAllocate(regs[i], size) IN
         IF res.err = ErrNone \/ res.err = Panic
           THEN [regions |-> [regs EXCEPT ![i] = res.reg], addr |-> res.addr, err |-> res.err]
           ELSE BuddyAllocateFrom(regs, size, i + 1)

BuddyAllocate(regs, size) == BuddyAllocateFrom(regs, size, 0)

\* a merge that never coalesces: the freed block is pushed on the list of its
\* order whether or not its buddy is free
MergeLoop_NoCoalesce(blocks, order, currentStart) ==
  [blocks EXCEPT ![order] = <<currentStart>> \o @]

\* a merge that keeps the start of the freed block for the merged block
RECURSIVE MergeLoop_KeepStart(_, _, _)
MergeLoop_KeepStart(blocks, order, currentStart) ==
  LET buddyStart == XorBit(currentStart, (2 ^ order) * BuddyStartSize) IN
  IF buddyStart \notin Range(blocks[order])
    THEN [blocks EXCEPT ![order] = <<currentStart>> \o @]
    ELSE LET removed == [blocks EXCEPT ![order] = RemoveAt(@, IndexOf(@, buddyStart))]
         IN IF order + 1 > MaxOrder THEN removed
            ELSE MergeLoop_KeepStart(removed, order + 1, currentStart)

\* a merge that pairs the freed block with its buddy once and does not go on
\* to the next order
MergeLoop_OneLevel(blocks, order, currentStart) ==
  LET buddyStart == XorBit(currentStart, (2 ^ order) * BuddyStartSize) IN
  IF buddyStart \notin Range(blocks[order]) \/ order + 1 > MaxOrder
    THEN [blocks EXCEPT ![order] = <<currentStart>> \o @]
    ELSE [blocks EXCEPT ![order] = RemoveAt(@, IndexOf(@, buddyStart)),
                        ![order + 1] = <<Min({currentStart, buddyStart})>> \o @]

\* BuddyRegion.mergeBlockLocked: the loop, on the free lists of one region
RECURSIVE MergeLoop(_, _, _)
MergeLoop(blocks, order, currentStart) ==
  LET buddyStart == XorBit(currentStart, (2 ^ order) * BuddyStartSize) IN
  IF buddyStart \notin Range(blocks[order])
    THEN [blocks EXCEPT ![order] = <<currentStart>> \o @]
    ELSE LET removed == [blocks EXCEPT ![order] = RemoveAt(@, IndexOf(@, buddyStart))]
             merged == IF currentStart > buddyStart THEN buddyStart ELSE currentStart
         IN IF order + 1 > MaxOrder THEN removed
            ELSE MergeLoop(removed, order + 1, merged)

mergeBlockLocked(r, start, size) ==
  [r EXCEPT !.blocks = MergeLoop(r.blocks, getOrder(size), start)]

\* a Free without the allocated map: it queues or merges whatever start it
\* is given, with the size of the smallest block
BuddyFree_NoTracking(regs, start) ==
  LET regionSize == MaxBlockSize \div buddyRegionCount
      idx0 == TruncDiv(ToInt(start), regionSize)
      regionIndex == IF idx0 >= buddyRegionCount THEN buddyRegionCount - 1 ELSE idx0
      r == regs[regionIndex]
  IN IF regionIndex < 0
       THEN [regions |-> regs, err |-> Panic]
       ELSE
         LET size == IF MapHas(r.allocated, start) THEN MapGet(r.allocated, start)
                     ELSE BuddyStartSize
             r1 == [r EXCEPT !.allocated = MapRemove(@, start), !.used = U64(@ - size)]
             r2 == IF Len(r1.mergeChan) < mergeBatchSize
                     THEN [r1 EXCEPT !.mergeChan = Append(@, [start |-> start, size |-> size])]
                     ELSE mergeBlockLocked(r1, start, size)
         IN [regions |-> [regs EXCEPT ![regionIndex] = r2], err |-> ErrNone]

\* a Free that looks every address up in region 0
BuddyFree_RegionZero(regs, start) ==
  LET r == regs[0]
  IN IF ~MapHas(r.allocated, start)
       THEN [regions |-> regs, err |-> ErrBlockNotFound]
       ELSE
         LET size == MapGet(r.allocated, start)
             r1 == [r EXCEPT !.allocated = MapRemove(@, start), !.used = U64(@ - size)]
             r2 == IF Len(r1.mergeChan) < mergeBatchSize
                     THEN [r1 EXCEPT !.mergeChan = Append(@, [start |-> start, size |-> size])]
                     ELSE mergeBlockLocked(r1, start, size)
         IN [regions |-> [regs EXCEPT ![0] = r2], err |-> ErrNone]

\* BuddyAllocator.Free
BuddyFree(regs, start) ==
  LET regionSize == MaxBlockSize \div buddyRegionCount
      idx0 == TruncDiv(ToInt(start), regionSize)
      regionIndex == IF idx0 >= buddyRegionCount THEN buddyRegionCount - 1 ELSE idx0
      r == regs[regionIndex]
  IN IF regionIndex < 0
       \* b.regions[regionIndex]: index out of range
       THEN [regions |-> regs, err |-> Panic]
     ELSE IF ~MapHas(r.allocated, start)
       THEN [regions |-> regs, err |-> ErrBlockNotFound]
       ELSE
         LET size == MapGet(r.allocated, start)
             r1 == [r EXCEPT !.allocated = MapRemove(@, start), !.used = U64(@ - size)]
             r2 == IF Len(r1.mergeChan) < mergeBatchSize
                     THEN [r1 EXCEPT !.mergeChan = Append(@, [start |-> start, size |-> size])]
                     ELSE mergeBlockLocked(r1, start, size)
         IN [regions |-> [regs EXCEPT ![regionIndex] = r2], err |-> ErrNone]

\* BuddyAllocator.GetUsedSize
BuddyGetUsedSize(regs) == U64(SumOver([i \in RegionIds |-> regs[i].used], RegionIds))

\* ------------------------------------------------------------ slab
\* NewSlab
NewSlab(start, size, fromBuddy) ==
  [start |-> start, size |-> size, used |-> 0, allocated |-> {},
   freeList |-> <<start>>, fromBuddy |-> fromBuddy]

\* NewSlabAllocator: no slab
NewSlabAllocator == [c \in CellSizes |-> <<>>]

\* an isRangeOverlap that never reports an overlap
isRangeOverlap_Never(slab, start, size) == FALSE

\* Slab.isRangeOverlap
isRangeOverlap(slab, start, size) ==
  \E e \in slab.allocated :
    \/ (start >= e.start /\ start < e.start + e.size)
    \/ (start + size > e.start /\ start < e.start + e.size)
    \/ (start <= e.start /\ start + size > e.start)

\* Slab.findFreeSpace, second loop: probe start, start + size, ...
RECURSIVE Probe(_, _, _)
Probe(slab, size, current) ==
  IF current + size > slab.start + slab.size
    THEN [slab |-> slab, start |-> 0, found |-> FALSE]
    ELSE IF ~isRangeOverlap(slab, current, size)
           THEN [slab |-> [slab EXCEPT !.freeList = Append(@, current)],
                 start |-> current, found |-> TRUE]
           ELSE Probe(slab, size, current + size)

\* Slab.findFreeSpace
findFreeSpace(slab, size) ==
  IF slab.used + size > slab.size
    THEN [slab |-> slab, start |-> 0, found |-> FALSE]
    ELSE
      LET fit == {i \in 1..Len(slab.freeList) :
                    /\ slab.freeList[i] + size <= slab.start + slab.size
                    /\ ~isRangeOverlap(slab, slab.freeList[i], size)}
      IN IF fit # {}
           THEN [slab |-> [slab EXCEPT !.freeList = RemoveAt(@, Min(fit))],
                 start |-> slab.freeList[Min(fit)], found |-> TRUE]
           ELSE Probe(slab, size, slab.start)

\* an Allocate that hands out the cell without the entry in slab.allocated
SlabTakeCell_NoRecord(st, size, idx) ==
  LET target == st.cache[size][idx]
      res == findFreeSpace(target, size)
      st1 == [st EXCEPT !.cache[size][idx] = res.slab]
  IN IF ~res.found THEN [st |-> st1, addr |-> 0, err |-> ErrNoSpaceAvailable]
     ELSE [st |-> st1, addr |-> res.start, err |-> ErrNone]

\* an Allocate that records the cell and does not add its size to slab.used
SlabTakeCell_NoUsed(st, size, idx) ==
  LET target == st.cache[size][idx]
      res == findFreeSpace(target, size)
      st1 == [st EXCEPT !.cache[size][idx] = res.slab]
  IN IF ~res.found THEN [st |-> st1, addr |-> 0, err |-> ErrNoSpaceAvailable]
     ELSE IF MapHas(res.slab.allocated, res.start)
       THEN [st |-> st1, addr |-> 0, err |-> ErrAddressAlreadyAllocated]
       ELSE [st |-> [st EXCEPT !.cache[size][idx] =
                        [res.slab EXCEPT !.allocated = MapPut(@, res.start, size)]],
             addr |-> res.start, err |-> ErrNone]

\* SlabAllocator.Allocate, from "Find available space" on: the cell is taken in
\* slab number idx of cache[size]
SlabTakeCell(st, size, idx) ==
  LET target == st.cache[size][idx]
      res == findFreeSpace(target, size)
      st1 == [st EXCEPT !.cache[size][idx] = res.slab]
  IN IF ~res.found THEN [st |-> st1, addr |-> 0, err |-> ErrNoSpaceAvailable]
     ELSE IF MapHas(res.slab.allocated, res.start)
       THEN [st |-> st1, addr |-> 0, err |-> ErrAddressAlreadyAllocated]
       ELSE [st |-> [st EXCEPT !.cache[size][idx] =
                        [res.slab EXCEPT !.allocated = MapPut(@, res.start, size),
                                         !.used = U64(@ + size)]],
             addr |-> res.start, err |-> ErrNone]

\* SlabAllocator.Allocate, from "Find slab with available space" on
SlabAllocateIn(st, size) ==
  LET slabs == st.cache[size]
      room == {i \in 1..Len(slabs) : slabs[i].used + size <= slabs[i].size}
  IN IF room # {} THEN SlabTakeCell(st, size, Min(room))
     ELSE
       LET b == BuddyAllocate(st.regions, SlabMaxSize) IN
       IF b.err # ErrNone THEN [st |-> st, addr |-> 0, err |-> b.err]
       ELSE SlabTakeCell([regions |-> b.regions,
                          cache |-> [st.cache EXCEPT ![size] =
                                       Append(@, NewSlab(b.addr, SlabMaxSize, TRUE))]],
                         size, Len(slabs) + 1)

\* an Allocate that registers the first slab of a size before it looks at the
\* error of buddy.Allocate
SlabAllocate_SlabBeforeCheck(st, size) ==
  IF st.cache[size] = <<>>
    THEN LET b == BuddyAllocate(st.regions, SlabMaxSize)
             st1 == [regions |-> b.regions,
                     cache |-> [st.cache EXCEPT ![size] =
                                  <<NewSlab(b.addr, SlabMaxSize, TRUE)>>]]
         IN IF b.err # ErrNone THEN [st |-> st1, addr |-> 0, err |-> b.err]
            ELSE SlabAllocateIn(st1, size)
    ELSE SlabAllocateIn(st, size)

\* SlabAllocator.Allocate
SlabAllocate(st, size) ==
  IF st.cache[size] = <<>>
    THEN LET b == BuddyAllocate(st.regions, SlabMaxSize) IN
         IF b.err # ErrNone THEN [st |-> st, addr |-> 0, err |-> b.err]
         ELSE SlabAllocateIn([regions |-> b.regions,
                              cache |-> [st.cache EXCEPT ![size] =
                                           <<NewSlab(b.addr, SlabMaxSize, TRUE)>>]],
                             size)
    ELSE SlabAllocateIn(st, size)

\* SlabAllocator.mergeSlab: the slab is dropped from s.slabs and its block freed
mergeSlab(st, slab) ==
  LET b == BuddyFree(st.regions, slab.start) IN
  [st |-> [st EXCEPT !.regions = b.regions], err |-> b.err]

\* a Free that gives an empty slab back only when its free space exceeds a
\* threshold above the slab size, so never
SlabIsReturned_Threshold(slab) ==
  slab.used = 0 /\ slab.size - slab.used > 2 * SlabMaxSize /\ slab.fromBuddy

\* SlabAllocator.Free, "if targetSlab.used == 0 && targetSlab.fromBuddy": the
\* slab is given back to buddy
SlabIsReturned(slab) == slab.used = 0 /\ slab.fromBuddy

\* SlabAllocator.Free
SlabFree(st, start, size) ==
  LET slabs == st.cache[size]
      hit == {i \in 1..Len(slabs) :
                start >= slabs[i].start /\ start < slabs[i].start + slabs[i].size}
  IN IF hit = {}
       THEN LET b == BuddyFree(st.regions, start) IN
            [st |-> [st EXCEPT !.regions = b.regions], err |-> b.err]
       ELSE
         LET idx == Min(hit)
             targetSlab == slabs[idx]
             offset == start - targetSlab.start
         IN IF offset % size # 0 THEN [st |-> st, err |-> ErrInvalidAddress]
            ELSE IF ~MapHas(targetSlab.allocated, start)
              THEN [st |-> st, err |-> ErrAddressNotAllocated]
            ELSE IF MapGet(targetSlab.allocated, start) # size
              THEN [st |-> st, err |-> ErrInvalidAddress]
            ELSE
              LET freed == [targetSlab EXCEPT !.used = U64(@ - size),
                                              !.allocated = MapRemove(@, start),
                                              !.freeList = Append(@, start)]
              IN IF SlabIsReturned(freed)
                   THEN mergeSlab([st EXCEPT !.cache[size] = RemoveAt(@, idx)], freed)
                   ELSE [st |-> [st EXCEPT !.cache[size][idx] = freed], err |-> ErrNone]

\* SlabAllocator.GetFreeSize: the sum of size - used over s.slabs
SlabGetFreeSize(c) ==
  U64(SumOver([k \in CellSizes |-> SeqSum([i \in 1..Len(c[k]) |-> c[k][i].size - c[k][i].used])],
              CellSizes))

\* ------------------------------------------------------------ allocator
\* NewAllocator
NewAllocator == [regions |-> NewBuddyAllocator, cache |-> NewSlabAllocator]

\* an Allocate without the size limit
AllocatorAllocate_NoLimit(st, size) ==
  IF size <= SlabMaxSize THEN SlabAllocate(st, size)
  ELSE LET b == BuddyAllocate(st.regions, size) IN
       IF b.err # ErrNone THEN [st |-> st, addr |-> 0, err |-> b.err]
       ELSE [st |-> [st EXCEPT !.regions = b.regions], addr |-> b.addr, err |-> ErrNone]

\* an Allocate that sends a request of exactly SlabMaxSize to buddy
AllocatorAllocate_BelowSlabMax(st, size) ==
  IF size > MaxBlockSize THEN [st |-> st, addr |-> 0, err |-> ErrSizeTooLarge]
  ELSE IF size < SlabMaxSize THEN SlabAllocate(st, size)
  ELSE LET b == BuddyAllocate(st.regions, size) IN
       IF b.err # ErrNone THEN [st |-> st, addr |-> 0, err |-> b.err]
       ELSE [st |-> [st EXCEPT !.regions = b.regions], addr |-> b.addr, err |-> ErrNone]

\* Allocator.Allocate
AllocatorAllocate(st, size) ==
  IF size > MaxBlockSize THEN [st |-> st, addr |-> 0, err |-> ErrSizeTooLarge]
  ELSE IF size <= SlabMaxSize THEN SlabAllocate(st, size)
  ELSE LET b == BuddyAllocate(st.regions, size) IN
       IF b.err # ErrNone THEN [st |-> st, addr |-> 0, err |-> b.err]
       ELSE [st |-> [st EXCEPT !.regions = b.regions], addr |-> b.addr, err |-> ErrNone]

\* Allocator.Free
AllocatorFree(st, start, size) ==
  IF size <= SlabMaxSize THEN SlabFree(st, start, size)
  ELSE LET b == BuddyFree(st.regions, start) IN
       [st |-> [st EXCEPT !.regions = b.regions], err |-> b.err]

\* a GetUsedSize that reports buddy's used size and leaves the free space of the
\* slabs in
GetUsedSize_BuddyOnly(st) == BuddyGetUsedSize(st.regions)

\* Allocator.GetUsedSize
GetUsedSize(st) == U64(BuddyGetUsedSize(st.regions) - SlabGetFreeSize(st.cache))

\* the bytes of one unit of the model: BuddyStartSize units are 1 MiB
UnitBytes == (1024 * 1024) \div BuddyStartSize

\* Allocator.GetTotalSize, in bytes: 1 << (40 + uint(offset)); for a negative
\* offset uint(offset) wraps and the sum wraps back
GetTotalSize ==
  LET base == 20
      offset == MaxOrder - base
  IN 2 ^ (40 + offset)

\* ------------------------------------------------------------ actions
NoCall == [op |-> "none", size |-> 0, err |-> ErrNone]

\* ------------------------------------------------------------ threads and locks
\* the caller threads
Callers == 1..NumCallers

\* the holder id of the goroutine run() of a region
RunId == -1

\* a sync.RWMutex nobody holds
Unlocked == [w |-> 0, r |-> {}]

\* no call in progress, the goroutines wait for a request, every lock free
InitLocks ==
  /\ stack = [t \in Callers |-> <<>>]
  /\ run = [i \in RegionIds |-> "recv"]
  /\ queued = [i \in RegionIds |-> 0]
  /\ mu = 0
  /\ slabMutex = Unlocked
  /\ regionMutex = [i \in RegionIds |-> Unlocked]

\* ------------------------------------------------------------ pool
PoolClasses == {"small", "medium", "large"}

\* PoolStats, all zero
NoStats == [TotalAllocations |-> 0, PoolHits |-> 0, PoolMisses |-> 0,
            TotalFrees |-> 0, PoolFreeHits |-> 0, PoolFreeMisses |-> 0]

\* a MemoryPool without slots: no pool is in use
NoPool == [slots |-> [c \in PoolClasses |-> <<>>], stats |-> NoStats]

\* the switch of MemoryPool.Allocate and MemoryPool.Free
ClassOf(size) ==
  IF size <= SmallClassMax THEN "small"
  ELSE IF size <= MediumClassMax THEN "medium"
  ELSE IF size <= LargeClassMax THEN "large"
  ELSE "none"

\* the slots of the class of a size: slot i is [addr, size, used] for
\* xBlocks[i], xSizes[i], xUsed[i]
ClassSlots(p, size) == IF ClassOf(size) = "none" THEN <<>> ELSE p.slots[ClassOf(size)]

\* NewMemoryPool: one pre-allocation loop; sizes is the sequence of the sizes
\* rand.Intn gives, acc the slots filled so far
RECURSIVE Prealloc(_, _, _)
Prealloc(st, sizes, acc) ==
  IF sizes = <<>> THEN [st |-> st, slots |-> acc, err |-> ErrNone]
  ELSE Only({IF r.err # ErrNone THEN [st |-> r.st, slots |-> acc, err |-> r.err]
             ELSE Prealloc(r.st, Tail(sizes),
                           Append(acc, [addr |-> r.addr, size |-> Head(sizes),
                                        used |-> FALSE])) :
             r \in {AllocatorAllocate(st, Head(sizes))}})

\* NewMemoryPool with the given random sizes
NewMemoryPool(st, smallSizes, mediumSizes, largeSizes) ==
  Only({Only({Only({
    LET err == IF a.err # ErrNone THEN a.err
               ELSE IF b.err # ErrNone THEN b.err ELSE c.err
        st1 == IF a.err # ErrNone THEN a.st
               ELSE IF b.err # ErrNone THEN b.st ELSE c.st
    IN [pool |-> [slots |-> [k \in PoolClasses |->
                               IF k = "small" THEN a.slots
                               ELSE IF k = "medium" THEN b.slots ELSE c.slots],
                  stats |-> NoStats],
        st |-> st1, err |-> err] :
    c \in {Prealloc(b.st, largeSizes, <<>>)}}) :
    b \in {Prealloc(a.st, mediumSizes, <<>>)}}) :
    a \in {Prealloc(st, smallSizes, <<>>)}})

\* an Allocate that hands out a slot without marking it in use
PoolAllocate_NoMark(p, st, size) ==
  LET slots == ClassSlots(p, size)
      fit == {i \in 1..Len(slots) : ~slots[i].used /\ slots[i].size >= size}
      p1 == [p EXCEPT !.stats.TotalAllocations = U64(@ + 1)]
  IN IF fit # {}
       THEN [pool |-> [p1 EXCEPT !.stats.PoolHits = U64(@ + 1)],
             st |-> st, addr |-> slots[Min(fit)].addr, err |-> ErrNone, hit |-> TRUE]
       ELSE LET r == AllocatorAllocate(st, size) IN
            [pool |-> [p1 EXCEPT !.stats.PoolMisses = U64(@ + 1)],
             st |-> r.st, addr |-> r.addr, err |-> r.err, hit |-> FALSE]

\* an Allocate that takes the first slot not in use, whatever its size
PoolAllocate_AnySize(p, st, size) ==
  LET slots == ClassSlots(p, size)
      fit == {i \in 1..Len(slots) : ~slots[i].used}
      p1 == [p EXCEPT !.stats.TotalAllocations = U64(@ + 1)]
  IN IF fit # {}
       THEN [pool |-> [p1 EXCEPT !.slots[ClassOf(size)][Min(fit)].used = TRUE,
                                 !.stats.PoolHits = U64(@ + 1)],
             st |-> st, addr |-> slots[Min(fit)].addr, err |-> ErrNone, hit |-> TRUE]
       ELSE LET r == AllocatorAllocate(st, size) IN
            [pool |-> [p1 EXCEPT !.stats.PoolMisses = U64(@ + 1)],
             st |-> r.st, addr |-> r.addr, err |-> r.err, hit |-> FALSE]

\* an Allocate that, when its own class has no slot for the request, takes a
\* free slot that is large enough from another class
PoolAllocate_Borrow(p, st, size) ==
  LET slots == ClassSlots(p, size)
      fit == {i \in 1..Len(slots) : ~slots[i].used /\ slots[i].size >= size}
      other == {c \in PoolClasses :
                  \E i \in 1..Len(p.slots[c]) :
                    ~p.slots[c][i].used /\ p.slots[c][i].size >= size}
      p1 == [p EXCEPT !.stats.TotalAllocations = U64(@ + 1)]
  IN IF fit # {}
       THEN [pool |-> [p1 EXCEPT !.slots[ClassOf(size)][Min(fit)].used = TRUE,
                                 !.stats.PoolHits = U64(@ + 1)],
             st |-> st, addr |-> slots[Min(fit)].addr, err |-> ErrNone, hit |-> TRUE]
       ELSE IF other # {}
         THEN LET c == CHOOSE k \in other : TRUE
                  i == Min({j \in 1..Len(p.slots[c]) :
                              ~p.slots[c][j].used /\ p.slots[c][j].size >= size})
              IN [pool |-> [p1 EXCEPT !.slots[c][i].used = TRUE,
                                      !.stats.PoolHits = U64(@ + 1)],
                  st |-> st, addr |-> p.slots[c][i].addr, err |-> ErrNone, hit |-> TRUE]
       ELSE LET r == AllocatorAllocate(st, size) IN
            [pool |-> [p1 EXCEPT !.stats.PoolMisses = U64(@ + 1)],
             st |-> r.st, addr |-> r.addr, err |-> r.err, hit |-> FALSE]

\* MemoryPool.Allocate
PoolAllocate(p, st, size) ==
  LET slots == ClassSlots(p, size)
      fit == {i \in 1..Len(slots) : ~slots[i].used /\ slots[i].size >= size}
      p1 == [p EXCEPT !.stats.TotalAllocations = U64(@ + 1)]
  IN IF fit # {}
       THEN [pool |-> [p1 EXCEPT !.slots[ClassOf(size)][Min(fit)].used = TRUE,
                                 !.stats.PoolHits = U64(@ + 1)],
             st |-> st, addr |-> slots[Min(fit)].addr, err |-> ErrNone, hit |-> TRUE]
       ELSE LET r == AllocatorAllocate(st, size) IN
            [pool |-> [p1 EXCEPT !.stats.PoolMisses = U64(@ + 1)],
             st |-> r.st, addr |-> r.addr, err |-> r.err, hit |-> FALSE]

\* a Free that counts the hit and leaves the slot in use
PoolFree_NoClear(p, st, addr, size) ==
  LET slots == ClassSlots(p, size)
      found == {i \in 1..Len(slots) : slots[i].addr = addr}
      p1 == [p EXCEPT !.stats.TotalFrees = U64(@ + 1)]
  IN IF found # {}
       THEN [pool |-> [p1 EXCEPT !.stats.PoolFreeHits = U64(@ + 1)],
             st |-> st, err |-> ErrNone, hit |-> TRUE]
       ELSE LET r == AllocatorFree(st, addr, size) IN
            [pool |-> [p1 EXCEPT !.stats.PoolFreeMisses = U64(@ + 1)],
             st |-> r.st, err |-> r.err, hit |-> FALSE]

\* a Free that gives the allocation of the slot it found back to the Allocator
PoolFree_Release(p, st, addr, size) ==
  LET slots == ClassSlots(p, size)
      found == {i \in 1..Len(slots) : slots[i].addr = addr}
      p1 == [p EXCEPT !.stats.TotalFrees = U64(@ + 1)]
  IN IF found # {}
       THEN LET r == AllocatorFree(st, addr, slots[Min(found)].size) IN
            [pool |-> [p1 EXCEPT !.slots[ClassOf(size)][Min(found)].used = FALSE,
                                 !.stats.PoolFreeHits = U64(@ + 1)],
             st |-> r.st, err |-> ErrNone, hit |-> TRUE]
       ELSE LET r == AllocatorFree(st, addr, size) IN
            [pool |-> [p1 EXCEPT !.stats.PoolFreeMisses = U64(@ + 1)],
             st |-> r.st, err |-> r.err, hit |-> FALSE]

\* MemoryPool.Free
PoolFree(p, st, addr, size) ==
  LET slots == ClassSlots(p, size)
      found == {i \in 1..Len(slots) : slots[i].addr = addr}
      p1 == [p EXCEPT !.stats.TotalFrees = U64(@ + 1)]
  IN IF found # {}
       THEN [pool |-> [p1 EXCEPT !.slots[ClassOf(size)][Min(found)].used = FALSE,
                                 !.stats.PoolFreeHits = U64(@ + 1)],
             st |-> st, err |-> ErrNone, hit |-> TRUE]
       ELSE LET r == AllocatorFree(st, addr, size) IN
            [pool |-> [p1 EXCEPT !.stats.PoolFreeMisses = U64(@ + 1)],
             st |-> r.st, err |-> r.err, hit |-> FALSE]

\* a Close that frees only the slots that are not in use
RECURSIVE CloseSlots_UnusedOnly(_, _)
CloseSlots_UnusedOnly(st, slots) ==
  IF slots = <<>> THEN [st |-> st, err |-> ErrNone]
  ELSE IF Head(slots).used THEN CloseSlots_UnusedOnly(st, Tail(slots))
  ELSE Only({IF r.err # ErrNone THEN [st |-> r.st, err |-> r.err]
             ELSE CloseSlots_UnusedOnly(r.st, Tail(slots)) :
             r \in {AllocatorFree(st, Head(slots).addr, Head(slots).size)}})

\* MemoryPool.Close: one loop over the slots of a class; it returns at the
\* first Free that fails
RECURSIVE CloseSlots(_, _)
CloseSlots(st, slots) ==
  IF slots = <<>> THEN [st |-> st, err |-> ErrNone]
  ELSE Only({IF r.err # ErrNone THEN [st |-> r.st, err |-> r.err]
             ELSE CloseSlots(r.st, Tail(slots)) :
             r \in {AllocatorFree(st, Head(slots).addr, Head(slots).size)}})

\* MemoryPool.Close
PoolClose(p, st) ==
  CloseSlots(st, p.slots["small"] \o p.slots["medium"] \o p.slots["large"])

Init ==
  /\ regions = NewAllocator.regions
  /\ cache = NewAllocator.cache
  /\ runReq = [i \in RegionIds |-> <<>>]
  /\ live = {}
  /\ last = NoCall
  /\ calls = 0
  /\ pool = NoPool
  /\ held = {}
  /\ InitLocks

\* a caller calls Allocator.Allocate(size) and keeps the address it gets
Allocate(size) ==
  /\ calls < MaxCalls
  /\ calls' = calls + 1
  /\ LET res == AllocatorAllocate(St, size) IN
     /\ res.err = ErrNone => Cardinality(live) < MaxLive
     /\ regions' = res.st.regions
     /\ cache' = res.st.cache
     /\ live' = IF res.err = ErrNone
                  THEN live \cup {[addr |-> res.addr, size |-> size]}
                  ELSE live
     /\ last' = [op |-> "Allocate", size |-> size, err |-> res.err]
  /\ UNCHANGED runReq

\* a caller calls Allocator.Free(addr, size)
FreeCall(addr, size) ==
  LET res == AllocatorFree(St, addr, size) IN
  /\ regions' = res.st.regions
  /\ cache' = res.st.cache
  /\ live' = IF res.err = ErrNone
               THEN live \ {[addr |-> addr, size |-> size]}
               ELSE live
  /\ last' = [op |-> "Free", size |-> size, err |-> res.err]
  /\ calls < MaxCalls
  /\ calls' = calls + 1
  /\ UNCHANGED runReq

\* a caller frees an allocation it holds, with the size it requested
Free == \E a \in live : FreeCall(a.addr, a.size)

\* region.run, "case req := <-r.mergeChan": the goroutine receives a request
MergeRecv(i) ==
  /\ runReq[i] = <<>>
  /\ regions[i].mergeChan # <<>>
  /\ runReq' = [runReq EXCEPT ![i] = <<Head(regions[i].mergeChan)>>]
  /\ regions' = [regions EXCEPT ![i].mergeChan = Tail(@)]
  /\ UNCHANGED <<cache, live, last, calls>>

\* region.run: under the region's mutex, the received request is merged
MergeApply(i) ==
  /\ runReq[i] # <<>>
  /\ regions' = [regions EXCEPT ![i] =
                   mergeBlockLocked(@, runReq[i][1].start, runReq[i][1].size)]
  /\ runReq' = [runReq EXCEPT ![i] = <<>>]
  /\ UNCHANGED <<cache, live, last, calls>>

\* the process has not panicked
Running == last.err # Panic

Next ==
  /\ Running
  /\ \/ \E size \in RequestSizes : Allocate(size)
     \/ Free
     \/ \E i \in RegionIds : MergeRecv(i)
     \/ \E i \in RegionIds : MergeApply(i)
  /\ UNCHANGED <<pool, held>>
  /\ UNCHANGED lockVars

Spec == Init /\ [][Next]_vars

\* a step of the goroutine run() of region i
MergeStep(i) ==
  /\ Running
  /\ MergeRecv(i) \/ MergeApply(i)
  /\ UNCHANGED <<pool, held>>
  /\ UNCHANGED lockVars

\* the scheduler lets the goroutine of every region run: a request in
\* mergeChan is received, and the region mutex, which the callers hold only
\* for the length of one call, is handed to the goroutine
SpecFair == Spec /\ \A i \in RegionIds : WF_vars(MergeStep(i))

\* ------------------------------------------------------------ filling
\* the requests of a run that fills the space: 1 MiB and 2 MiB
FillSizes == {BuddyStartSize, 2 * BuddyStartSize}

\* the requests so far were 1 MiB, 2 MiB, 1 MiB, 2 MiB, ...
Alternating == calls = 0 \/ last.alt

\* the size that continues the alternation
NextInTurn == IF calls = 0 THEN BuddyStartSize ELSE 3 * BuddyStartSize - last.size

\* a caller that frees nothing calls Allocator.Allocate(size), until the first
\* call that fails
Fill(size) ==
  /\ last.err = ErrNone
  /\ calls' = calls + 1
  /\ \E res \in {AllocatorAllocate(St, size)} :
       /\ regions' = res.st.regions
       /\ cache' = res.st.cache
       /\ live' = IF res.err = ErrNone
                    THEN live \cup {[addr |-> res.addr, size |-> size]}
                    ELSE live
       /\ last' = [op |-> "Allocate", size |-> size, err |-> res.err,
                   alt |-> Alternating /\ size = NextInTurn]
  /\ UNCHANGED runReq

NextFill ==
  /\ \E size \in FillSizes : Fill(size)
  /\ UNCHANGED <<pool, held>>
  /\ UNCHANGED lockVars

\* requests of 1 MiB and 2 MiB in any order, no Free, until the first failure
SpecFill == Init /\ [][NextFill]_vars

\* addresses and sizes a caller may pass to Free when it does not keep to the
\* contract: the first addresses of region 0 (the ones allocations get first),
\* the start of region 1 and an address beyond the space; a size of each slab
\* class in use and one of the buddy path
FreeAddrs == {0, 1, 2, 4, 8, 16, MaxBlockSize + 1}
FreeSizes == {1, 4, 16}

\* a caller calls Allocator.Free with any address and size
FreeAny == \E addr \in FreeAddrs, size \in FreeSizes : FreeCall(addr, size)

NextAny ==
  /\ Running
  /\ \/ \E size \in RequestSizes : Allocate(size)
     \/ FreeAny
     \/ \E i \in RegionIds : MergeRecv(i)
     \/ \E i \in RegionIds : MergeApply(i)
  /\ UNCHANGED <<pool, held>>
  /\ UNCHANGED lockVars

\* the callers free whatever they like
SpecAny == Init /\ [][NextAny]_vars

\* ------------------------------------------------------------ pool in use
\* the sizes rand.Intn gives NewMemoryPool: [4 KiB, 64 KiB), [64 KiB, 1000 KiB)
\* and, of [1 MiB, 4 MiB), 1 MiB and 3 MiB
SmallSlotSizes == 1..(SmallClassMax - 1)
MediumSlotSizes == SmallClassMax..(MediumClassMax - 1)
LargeSlotSizes == {MediumClassMax, 12}

\* request sizes the callers pass to MemoryPool.Allocate: two of the small
\* class, one of the medium and of the large class, one above every class
PoolRequestSizes == {1, 2, 3, 12, 20}

\* request size of the callers that use the Allocator next to the pool: cells
\* of the slab the small slot lies in
DirectSizes == {1}

\* the sequences of n sizes rand.Intn can give one pre-allocation loop
RECURSIVE SizeSeqs(_, _)
SizeSeqs(S, n) ==
  IF n = 0 THEN {<<>>}
  ELSE {Append(q, x) : q \in SizeSeqs(S, n - 1), x \in S}

\* NewAllocator followed by a NewMemoryPool that succeeds
InitPool ==
  /\ \E ss \in SizeSeqs(SmallSlotSizes, SmallPoolSize) :
     \E ms \in SizeSeqs(MediumSlotSizes, MediumPoolSize) :
     \E ls \in SizeSeqs(LargeSlotSizes, LargePoolSize) :
     \E n \in {NewMemoryPool(NewAllocator, ss, ms, ls)} :
       /\ n.err = ErrNone
       /\ pool = n.pool
       /\ regions = n.st.regions
       /\ cache = n.st.cache
  /\ runReq = [i \in RegionIds |-> <<>>]
  /\ live = {}
  /\ held = {}
  /\ last = NoCall
  /\ calls = 0
  /\ InitLocks

\* MemoryPool.Close has not been called
Open == last.op # "Close"

\* a caller calls MemoryPool.Allocate(size) and keeps the address it gets
PoolAllocateCall(size) ==
  /\ Open
  /\ calls < MaxCalls
  /\ calls' = calls + 1
  /\ \E res \in {PoolAllocate(pool, St, size)} :
     /\ res.err = ErrNone => Cardinality(held) < MaxLive
     /\ pool' = res.pool
     /\ regions' = res.st.regions
     /\ cache' = res.st.cache
     /\ held' = IF res.err = ErrNone
                  THEN held \cup {[addr |-> res.addr, size |-> size, hit |-> res.hit]}
                  ELSE held
     /\ last' = [op |-> "PoolAllocate", size |-> size, err |-> res.err]
  /\ UNCHANGED <<runReq, live>>

\* a caller frees an allocation it got from the pool, with the size it requested
PoolFreeCall ==
  /\ Open
  /\ calls < MaxCalls
  /\ calls' = calls + 1
  /\ \E a \in held :
       \E res \in {PoolFree(pool, St, a.addr, a.size)} :
       /\ pool' = res.pool
       /\ regions' = res.st.regions
       /\ cache' = res.st.cache
       /\ held' = IF res.err = ErrNone THEN held \ {a} ELSE held
       /\ last' = [op |-> "PoolFree", size |-> a.size, err |-> res.err]
  /\ UNCHANGED <<runReq, live>>

\* MemoryPool.Close, the last call on the pool
PoolCloseCall ==
  /\ Open
  /\ calls < MaxCalls
  /\ calls' = calls + 1
  /\ \E res \in {PoolClose(pool, St)} :
     /\ regions' = res.st.regions
     /\ cache' = res.st.cache
     /\ last' = [op |-> "Close", size |-> 0, err |-> res.err]
  /\ UNCHANGED <<runReq, live, pool, held>>

NextPool ==
  /\ Running
  /\ \/ \E size \in PoolRequestSizes : PoolAllocateCall(size)
     \/ PoolFreeCall
     \/ PoolCloseCall
     \/ Open /\ (\E size \in DirectSizes : Allocate(size)) /\ UNCHANGED <<pool, held>>
     \/ Open /\ Free /\ UNCHANGED <<pool, held>>
     \/ (\E i \in RegionIds : MergeRecv(i)) /\ UNCHANGED <<pool, held>>
     \/ (\E i \in RegionIds : MergeApply(i)) /\ UNCHANGED <<pool, held>>
  /\ UNCHANGED lockVars

\* callers of the pool, callers of the Allocator and the merge goroutines
SpecPool == InitPool /\ [][NextPool]_vars

\* ------------------------------------------------------------ lock steps
\* The calls seen as sequences of lock operations.  What a call does to the
\* data is left to the actions above; here every branch of the code that
\* decides which lock is taken next is a choice.
Frame(pc, i) == [pc |-> pc, i |-> i]

At(t, pc) == stack[t] # <<>> /\ Head(stack[t]).pc = pc
AtRegion(t, pc, i) == At(t, pc) /\ Head(stack[t]).i = i

\* the frame on top is replaced: the thread moves on inside the function
Goto(t, pc, i) == stack' = [stack EXCEPT ![t] = <<Frame(pc, i)>> \o Tail(@)]
\* the function on top calls callee and will go on at retpc
Call(t, callee, i, retpc) ==
  stack' = [stack EXCEPT ![t] = <<Frame(callee, i), Frame(retpc, 0)>> \o Tail(@)]
\* the function on top returns
Return(t) == stack' = [stack EXCEPT ![t] = Tail(@)]

\* a thread has called Lock() on the slab mutex and waits for it
SlabWriterWaits == \E t \in Callers : At(t, "slab.Allocate.Lock") \/ At(t, "slab.Free.Lock")
\* a thread or the goroutine has called Lock() on the mutex of region i
RegionWriterWaits(i) ==
  \/ run[i] = "Lock"
  \/ \E t \in Callers : AtRegion(t, "buddy.Allocate.Lock", i) \/ AtRegion(t, "buddy.Free.Lock", i)

\* a thread has called RLock() on the slab mutex and waits for it
SlabReaderWaits == {t \in Callers : At(t, "slab.GetFreeSize.RLock")}
\* a thread has called RLock() on the mutex of region i and waits for it
RegionReaderWaits(i) ==
  {t \in Callers : \/ AtRegion(t, "buddy.GetUsedSize.RLock", i)
                   \/ AtRegion(t, "buddy.GetMemoryUsage.RLock", i)}

\* sync.RWMutex: Lock waits for the writer and the readers to leave, RLock for
\* the writer and for a Lock that is waiting
CanLock(m) == m.w = 0 /\ m.r = {}
CanRLock(m, writerWaits) == m.w = 0 /\ ~writerWaits
\* sync.RWMutex: Unlock hands the lock to the readers that wait in RLock
\* before the next writer gets it
Unlock(readerWaits) == [w |-> 0, r |-> readerWaits]

\* the entry points a caller thread may call
EntryPoints == {"pool.Allocate.Lock", "pool.Free.Lock", "Allocator.Allocate", "Allocator.Free",
                "buddy.GetUsedSize.RLock", "buddy.GetMemoryUsage.RLock"}

\* a thread with no call in progress calls MemoryPool.Allocate, MemoryPool.Free,
\* Allocator.Allocate, Allocator.Free, Allocator.GetUsedSize or GetMemoryUsage
Begin(t) ==
  /\ stack[t] = <<>>
  /\ \E e \in EntryPoints : stack' = [stack EXCEPT ![t] = <<Frame(e, 0)>>]
  /\ UNCHANGED <<run, queued, mu, slabMutex, regionMutex>>

\* MemoryPool.Allocate / MemoryPool.Free: p.mu.Lock() and the scan of the
\* slots, which finds a slot
PoolHit(t) ==
  /\ At(t, "pool.Allocate.Lock") \/ At(t, "pool.Free.Lock")
  /\ mu = 0
  /\ mu' = t
  /\ Goto(t, "pool.Unlock", 0)
  /\ UNCHANGED <<run, queued, slabMutex, regionMutex>>

\* p.mu.Lock() and the scan, which finds none: return
\* p.allocator.Allocate(size) / p.allocator.Free(addr, size)
PoolMiss(t) ==
  /\ At(t, "pool.Allocate.Lock") \/ At(t, "pool.Free.Lock")
  /\ mu = 0
  /\ mu' = t
  /\ Call(t, IF At(t, "pool.Allocate.Lock") THEN "Allocator.Allocate" ELSE "Allocator.Free",
          0, "pool.Unlock")
  /\ UNCHANGED <<run, queued, slabMutex, regionMutex>>

\* defer p.mu.Unlock()
PoolUnlock(t) ==
  /\ At(t, "pool.Unlock")
  /\ mu' = 0
  /\ Return(t)
  /\ UNCHANGED <<run, queued, slabMutex, regionMutex>>

\* Allocator.Allocate: too large, the slab path or the buddy path
AllocatorAllocateStep(t) ==
  /\ At(t, "Allocator.Allocate")
  /\ \/ Return(t)
     \/ Goto(t, "slab.Allocate.Lock", 0)
     \/ Goto(t, "buddy.Allocate.Lock", 0)
  /\ UNCHANGED <<run, queued, mu, slabMutex, regionMutex>>

\* Allocator.Free: the slab path or the buddy path
AllocatorFreeStep(t) ==
  /\ At(t, "Allocator.Free")
  /\ \/ Goto(t, "slab.Free.Lock", 0)
     \/ \E i \in RegionIds : Goto(t, "buddy.Free.Lock", i)
  /\ UNCHANGED <<run, queued, mu, slabMutex, regionMutex>>

\* SlabAllocator.Allocate / Free: s.mutex.Lock(); a slab has room, or the cell
\* is freed or refused
SlabLock(t) ==
  /\ At(t, "slab.Allocate.Lock") \/ At(t, "slab.Free.Lock")
  /\ CanLock(slabMutex)
  /\ slabMutex' = [slabMutex EXCEPT !.w = t]
  /\ Goto(t, "slab.Unlock", 0)
  /\ UNCHANGED <<run, queued, mu, regionMutex>>

\* SlabAllocator.Allocate: s.mutex.Lock(); no slab has room:
\* s.buddy.Allocate(SlabMaxSize)
SlabAllocateStep(t) ==
  /\ At(t, "slab.Allocate.Lock")
  /\ CanLock(slabMutex)
  /\ slabMutex' = [slabMutex EXCEPT !.w = t]
  /\ Call(t, "buddy.Allocate.Lock", 0, "slab.Unlock")
  /\ UNCHANGED <<run, queued, mu, regionMutex>>

\* SlabAllocator.Free: s.mutex.Lock(); s.buddy.Free (no slab holds the
\* address, or mergeSlab of the emptied slab)
SlabFreeStep(t) ==
  /\ At(t, "slab.Free.Lock")
  /\ CanLock(slabMutex)
  /\ slabMutex' = [slabMutex EXCEPT !.w = t]
  /\ \E i \in RegionIds : Call(t, "buddy.Free.Lock", i, "slab.Unlock")
  /\ UNCHANGED <<run, queued, mu, regionMutex>>

\* defer s.mutex.Unlock()
SlabUnlock(t) ==
  /\ At(t, "slab.Unlock")
  /\ slabMutex' = Unlock(SlabReaderWaits)
  /\ Return(t)
  /\ UNCHANGED <<run, queued, mu, regionMutex>>

\* BuddyAllocator.Allocate: region.mutex.Lock() of the next region
BuddyAllocateLock(t) ==
  /\ At(t, "buddy.Allocate.Lock")
  /\ LET i == Head(stack[t]).i IN
     /\ CanLock(regionMutex[i])
     /\ regionMutex' = [regionMutex EXCEPT ![i].w = t]
     /\ Goto(t, "buddy.Allocate.allocate", i)
  /\ UNCHANGED <<run, queued, mu, slabMutex>>

\* a loop that goes on to the next region without region.mutex.Unlock()
BuddyAllocateUnlock_KeepsLock(t) ==
  /\ At(t, "buddy.Allocate.allocate")
  /\ LET i == Head(stack[t]).i IN
     \/ /\ regionMutex' = [regionMutex EXCEPT ![i] = Unlock(RegionReaderWaits(i))]
        /\ Return(t)
     \/ /\ i + 1 < buddyRegionCount
        /\ Goto(t, "buddy.Allocate.Lock", i + 1)
        /\ UNCHANGED regionMutex
  /\ UNCHANGED <<run, queued, mu, slabMutex>>

\* region.allocate(size); region.mutex.Unlock(); return on success, else the
\* next region, ErrNoSpaceAvailable after the last
BuddyAllocateUnlock(t) ==
  /\ At(t, "buddy.Allocate.allocate")
  /\ LET i == Head(stack[t]).i IN
     /\ regionMutex' = [regionMutex EXCEPT ![i] = Unlock(RegionReaderWaits(i))]
     /\ \/ Return(t)
        \/ i + 1 < buddyRegionCount /\ Goto(t, "buddy.Allocate.Lock", i + 1)
  /\ UNCHANGED <<run, queued, mu, slabMutex>>

\* BuddyAllocator.Free: region.mutex.Lock() of the region of the address
BuddyFreeLock(t) ==
  /\ At(t, "buddy.Free.Lock")
  /\ LET i == Head(stack[t]).i IN
     /\ CanLock(regionMutex[i])
     /\ regionMutex' = [regionMutex EXCEPT ![i].w = t]
     /\ Goto(t, "buddy.Free.locked", i)
  /\ UNCHANGED <<run, queued, mu, slabMutex>>

\* BuddyAllocator.Free: the address is not in region.allocated:
\* ErrBlockNotFound, and the deferred Unlock
BuddyFreeNotFound(t) ==
  /\ At(t, "buddy.Free.locked")
  /\ LET i == Head(stack[t]).i IN
     regionMutex' = [regionMutex EXCEPT ![i] = Unlock(RegionReaderWaits(i))]
  /\ Return(t)
  /\ UNCHANGED <<run, queued, mu, slabMutex>>

\* BuddyAllocator.Free: "case region.mergeChan <- MergeRequest{...}", taken
\* when the channel has room, and the deferred Unlock
BuddyFreeSend(t) ==
  /\ At(t, "buddy.Free.locked")
  /\ LET i == Head(stack[t]).i IN
     /\ queued[i] < mergeBatchSize
     /\ queued' = [queued EXCEPT ![i] = @ + 1]
     /\ regionMutex' = [regionMutex EXCEPT ![i] = Unlock(RegionReaderWaits(i))]
  /\ Return(t)
  /\ UNCHANGED <<run, mu, slabMutex>>

\* BuddyAllocator.Free: "default", taken when the channel is full: the merge
\* is done by the caller, and the deferred Unlock
BuddyFreeDefault(t) ==
  /\ At(t, "buddy.Free.locked")
  /\ LET i == Head(stack[t]).i IN
     /\ queued[i] >= mergeBatchSize
     /\ regionMutex' = [regionMutex EXCEPT ![i] = Unlock(RegionReaderWaits(i))]
  /\ Return(t)
  /\ UNCHANGED <<run, queued, mu, slabMutex>>

\* BuddyAllocator.GetUsedSize / GetMemoryUsage: region.mutex.RLock()
BuddyReadRLock(t) ==
  /\ At(t, "buddy.GetUsedSize.RLock") \/ At(t, "buddy.GetMemoryUsage.RLock")
  /\ LET i == Head(stack[t]).i IN
     /\ t \in regionMutex[i].r \/ CanRLock(regionMutex[i], RegionWriterWaits(i))
     /\ regionMutex' = [regionMutex EXCEPT ![i].r = @ \cup {t}]
     /\ Goto(t, IF At(t, "buddy.GetUsedSize.RLock")
                  THEN "buddy.GetUsedSize.read" ELSE "buddy.GetMemoryUsage.read", i)
  /\ UNCHANGED <<run, queued, mu, slabMutex>>

\* the region is read; region.mutex.RUnlock(); the next region, and after the
\* last a.slab.GetFreeSize() resp. the loop over a.slab.cache
BuddyReadRUnlock(t) ==
  /\ At(t, "buddy.GetUsedSize.read") \/ At(t, "buddy.GetMemoryUsage.read")
  /\ LET i == Head(stack[t]).i
         used == At(t, "buddy.GetUsedSize.read")
     IN /\ regionMutex' = [regionMutex EXCEPT ![i].r = @ \ {t}]
        /\ IF i + 1 < buddyRegionCount
             THEN Goto(t, IF used THEN "buddy.GetUsedSize.RLock"
                          ELSE "buddy.GetMemoryUsage.RLock", i + 1)
             ELSE Goto(t, IF used THEN "slab.GetFreeSize.RLock"
                          ELSE "Allocator.GetMemoryUsage.cache", 0)
  /\ UNCHANGED <<run, queued, mu, slabMutex>>

\* SlabAllocator.GetFreeSize: s.mutex.RLock()
SlabReadRLock(t) ==
  /\ At(t, "slab.GetFreeSize.RLock")
  /\ t \in slabMutex.r \/ CanRLock(slabMutex, SlabWriterWaits)
  /\ slabMutex' = [slabMutex EXCEPT !.r = @ \cup {t}]
  /\ Goto(t, "slab.GetFreeSize.read", 0)
  /\ UNCHANGED <<run, queued, mu, regionMutex>>

\* the slabs are summed up; defer s.mutex.RUnlock()
SlabReadRUnlock(t) ==
  /\ At(t, "slab.GetFreeSize.read")
  /\ slabMutex' = [slabMutex EXCEPT !.r = @ \ {t}]
  /\ Return(t)
  /\ UNCHANGED <<run, queued, mu, regionMutex>>

\* Allocator.GetMemoryUsage: len(a.slab.cache) and the range over a.slab.cache
\* are read, with no lock taken
MemoryUsageReadCache(t) ==
  /\ At(t, "Allocator.GetMemoryUsage.cache")
  /\ Return(t)
  /\ UNCHANGED <<run, queued, mu, slabMutex, regionMutex>>

\* region.run: "case req := <-r.mergeChan"
RunRecv(i) ==
  /\ run[i] = "recv"
  /\ queued[i] > 0
  /\ queued' = [queued EXCEPT ![i] = @ - 1]
  /\ run' = [run EXCEPT ![i] = "Lock"]
  /\ UNCHANGED <<stack, mu, slabMutex, regionMutex>>

\* region.run: r.mutex.Lock()
RunLock(i) ==
  /\ run[i] = "Lock"
  /\ CanLock(regionMutex[i])
  /\ regionMutex' = [regionMutex EXCEPT ![i].w = RunId]
  /\ run' = [run EXCEPT ![i] = "merge"]
  /\ UNCHANGED <<stack, queued, mu, slabMutex>>

\* region.run: r.mergeBlockLocked(...); r.mutex.Unlock()
RunUnlock(i) ==
  /\ run[i] = "merge"
  /\ regionMutex' = [regionMutex EXCEPT ![i] = Unlock(RegionReaderWaits(i))]
  /\ run' = [run EXCEPT ![i] = "recv"]
  /\ UNCHANGED <<stack, queued, mu, slabMutex>>

\* a step of a call in progress
Continue(t) ==
  /\ \/ PoolHit(t) \/ PoolMiss(t) \/ PoolUnlock(t)
     \/ AllocatorAllocateStep(t) \/ AllocatorFreeStep(t)
     \/ SlabLock(t) \/ SlabAllocateStep(t) \/ SlabFreeStep(t) \/ SlabUnlock(t)
     \/ BuddyAllocateLock(t) \/ BuddyAllocateUnlock(t)
     \/ BuddyFreeLock(t) \/ BuddyFreeNotFound(t) \/ BuddyFreeSend(t) \/ BuddyFreeDefault(t)
     \/ BuddyReadRLock(t) \/ BuddyReadRUnlock(t)
     \/ SlabReadRLock(t) \/ SlabReadRUnlock(t)
     \/ MemoryUsageReadCache(t)
  /\ UNCHANGED dataVars

\* a step of the goroutine of a region
RunStep(i) ==
  /\ RunRecv(i) \/ RunLock(i) \/ RunUnlock(i)
  /\ UNCHANGED dataVars

NextLocks ==
  \/ (\E t \in Callers : Begin(t)) /\ UNCHANGED dataVars
  \/ \E t \in Callers : Continue(t)
  \/ \E i \in RegionIds : RunStep(i)

\* the threads and the goroutines step by step
SpecLocks == Init /\ [][NextLocks]_vars

\* the scheduler lets every thread and every goroutine run, and sync.Mutex and
\* sync.RWMutex hand a lock that is free again and again to every thread that
\* waits for it
SpecLocksFair ==
  /\ SpecLocks
  /\ \A t \in Callers : SF_vars(Continue(t))
  /\ \A i \in RegionIds : WF_vars(RunStep(i))

\* ------------------------------------------------------------ claims
\* the sizes the claims try on every reachable state
ProbeSizes == 1..(MaxBlockSize + BuddyStartSize)

\* the entries of the allocated maps of all regions
BuddyAllocated(regs) == UNION {regs[i].allocated : i \in RegionIds}

\* the smallest order k with BuddyStartSize << k >= size
CeilOrder(size) == Min({k \in 0..(MaxOrder + 2) : BlockSize(k) >= size})

Disjoint(a, b) == a.addr + a.size <= b.addr \/ b.addr + b.size <= a.addr

\* C1: the byte ranges [addr, addr + size) of the live allocations of sizes
\* 1..MaxRequest are pairwise disjoint in every reachable state (callers free
\* only what they hold, with its size).
C1_NoAliasing ==
  \A a \in live : \A b \in live :
    (a # b /\ a.size <= MaxRequest /\ b.size <= MaxRequest) => Disjoint(a, b)

\* C2: every live allocation served by the buddy allocator directly holds a
\* block of size BuddyStartSize << k for the smallest k with
\* BuddyStartSize << k >= the requested size, so never less than the request.
C2_BuddyRoundsUp ==
  \A a \in live :
    a.size > SlabMaxSize =>
      \E e \in BuddyAllocated(regions) :
        /\ e.start = a.addr
        /\ e.size = BlockSize(CeilOrder(a.size))
        /\ e.size >= a.size

\* the size a live allocation was granted: the requested size of a slab cell,
\* the recorded size of the block of a direct buddy allocation
Granted(a) ==
  IF a.size <= SlabMaxSize THEN a.size
  ELSE (CHOOSE e \in BuddyAllocated(regions) : e.start = a.addr).size

\* C3: between calls, GetUsedSize() is the sum of the granted sizes of the live
\* allocations (requested size of each slab cell, block size of each direct
\* buddy allocation), and 0 when nothing is live.
C3_UsedAccounting ==
  GetUsedSize(St) = SumOver([a \in live |-> Granted(a)], live)

C3_Witness ==
  /\ last.op = "Free"
  /\ last.err = ErrNone
  /\ \E a \in live : \E b \in live : a.size <= SlabMaxSize /\ b.size > SlabMaxSize

\* what the round trip of C4 compares: the free blocks of every order, the
\* buddy used size, the slab cache and GetUsedSize()
FreeSets(regs) == [i \in RegionIds |-> [o \in Orders |-> Range(regs[i].blocks[o])]]

SameAllocatorState(s, t) ==
  /\ FreeSets(s.regions) = FreeSets(t.regions)
  /\ BuddyGetUsedSize(s.regions) = BuddyGetUsedSize(t.regions)
  /\ s.cache = t.cache
  /\ GetUsedSize(s) = GetUsedSize(t)

\* C4: in every reachable state, a successful a = Allocate(s) directly followed
\* by Free(a, s) leaves the free buddy blocks, the buddy used size, the slab
\* cache (slabs, live cells, free-cell lists) and GetUsedSize() as they were.
C4_RoundTrip ==
  \A size \in RequestSizes :
    LET r == AllocatorAllocate(St, size) IN
    r.err = ErrNone =>
      LET f == AllocatorFree(r.st, r.addr, size) IN
      f.err = ErrNone /\ SameAllocatorState(f.st, St)

\* no merge request is queued or in the hands of a merge goroutine
Quiescent == \A i \in RegionIds : regions[i].mergeChan = <<>> /\ runReq[i] = <<>>

TotalFreeBlocks ==
  SumOver([i \in RegionIds |->
             SumOver([o \in Orders |-> Len(regions[i].blocks[o])], Orders)],
          RegionIds)

C6_SlabReturned ==
  /\ \A k \in CellSizes : \A i \in 1..Len(cache[k]) : cache[k][i].allocated # {}
  /\ \A a \in live :
       a.size <= SlabMaxSize =>
         \A i \in 1..Len(cache[a.size]) :
           LET slab == cache[a.size][i]
               f == AllocatorFree(St, a.addr, a.size)
           IN (slab.allocated = {[start |-> a.addr, size |-> a.size]} /\ slab.fromBuddy) =>
                /\ f.err = ErrNone
                /\ \A k \in CellSizes : \A j \in 1..Len(f.st.cache[k]) :
                     f.st.cache[k][j].start # slab.start
                /\ ~MapHas(BuddyAllocated(f.st.regions), slab.start)
                /\ BuddyGetUsedSize(f.st.regions) = BuddyGetUsedSize(regions) - SlabMaxSize

C6_Witness ==
  /\ last.op = "Free"
  /\ last.err = ErrNone
  /\ last.size = 1
  /\ calls >= 4
  /\ \A k \in CellSizes : cache[k] = <<>>
  /\ live # {}

\* C7: every address a caller got from a successful Allocate is a multiple of
\* 4 KiB (MinBlockSize), whatever the request size.
C7_Aligned == \A a \in live : a.addr % MinBlockSize = 0

C9_FailedAllocate ==
  \A size \in ProbeSizes :
    LET r == AllocatorAllocate(St, size) IN
    r.err # ErrNone => r.st = St

C9_Witness ==
  /\ last.op = "Allocate"
  /\ last.size <= SlabMaxSize
  /\ last.err = ErrNoSpaceAvailable

\* C10: a Free that returns an error leaves the allocator state (buddy free
\* lists, allocated maps, used counters, slab cache, hence GetUsedSize())
\* unchanged.
C10_FailedFree ==
  \A addr \in FreeAddrs : \A size \in FreeSizes :
    LET f == AllocatorFree(St, addr, size) IN
    f.err # ErrNone => (f.st = St /\ GetUsedSize(f.st) = GetUsedSize(St))

\* addresses tried by C11: inside each region, beyond the space, and with the
\* top bit of the uint64 set
ProbeAddrs == {0, 1, MinBlockSize, BuddyStartSize, MaxBlockSize \div buddyRegionCount,
               MaxBlockSize - 1, MaxBlockSize + 1, UintMod \div 2, UintMod - 1}

\* C11: on an allocator with no live allocation (fresh, or everything freed),
\* Free(addr, size) returns ErrInvalidAddress or ErrBlockNotFound for every
\* address and every size >= 1; it never succeeds and never ends otherwise.
C11_FreeOnEmpty ==
  live = {} =>
    \A addr \in ProbeAddrs : \A size \in ProbeSizes :
      AllocatorFree(St, addr, size).err \in {ErrInvalidAddress, ErrBlockNotFound}

\* the sizes the claims about the pool try on every reachable state: the
\* sizes around the limits of the classes
PoolProbeSizes == {1, SmallClassMax, SmallClassMax + 1, MediumClassMax, MediumClassMax + 1,
                   12, LargeClassMax, LargeClassMax + 1, MaxBlockSize + 1}

\* the addresses the callers hold, from the pool and from the Allocator
HeldAddrs == {a.addr : a \in held} \cup {a.addr : a \in live}

\* C12: while callers of the pool, callers of the Allocator and the merge
\* goroutines interleave, each caller freeing only what it holds with the
\* size it requested, no address is held twice (no Allocate returns an address
\* that is held) and every such Free returns success.
C12_Concurrent ==
  Open =>
    /\ \A a \in held : \A b \in held : a # b => a.addr # b.addr
    /\ \A a \in live : \A b \in live : a # b => a.addr # b.addr
    /\ \A a \in held : \A b \in live : a.addr # b.addr
    /\ \A size \in PoolProbeSizes :
         LET r == PoolAllocate(pool, St, size)
             d == AllocatorAllocate(St, size)
         IN /\ r.err = ErrNone => r.addr \notin HeldAddrs
            /\ d.err = ErrNone => d.addr \notin HeldAddrs
    /\ \A a \in held : PoolFree(pool, St, a.addr, a.size).err = ErrNone
    /\ \A a \in live : AllocatorFree(St, a.addr, a.size).err = ErrNone
    /\ last.op \in {"PoolFree", "Free"} => last.err = ErrNone

C12_Witness ==
  /\ last.op = "PoolFree"
  /\ last.err = ErrNone
  /\ \E a \in held : \E b \in held : a.hit /\ ~b.hit
  /\ live # {}
  /\ \E i \in RegionIds : runReq[i] # <<>>

\* the class the claims name for a size: <= 64 KiB, <= 1 MiB, <= 4 MiB
ClaimClass(size) ==
  CHOOSE c \in PoolClasses \cup {"none"} :
    \/ c = "small" /\ size <= SmallClassMax
    \/ c = "medium" /\ size > SmallClassMax /\ size <= MediumClassMax
    \/ c = "large" /\ size > MediumClassMax /\ size <= LargeClassMax
    \/ c = "none" /\ size > LargeClassMax

\* slot i of class c is not in use and large enough for size
Fits(c, i, size) == ~pool.slots[c][i].used /\ pool.slots[c][i].size >= size

\* C13: MemoryPool.Allocate(size) returns the address of the lowest-index slot
\* of the class of size that is not in use and has a recorded size >= size,
\* marks exactly that slot and adds one to PoolHits; if and only if there is no
\* such slot it adds one to PoolMisses and returns what Allocator.Allocate
\* returns.
C13_PoolAllocate ==
  \A size \in PoolProbeSizes :
    LET c == ClaimClass(size)
        r == PoolAllocate(pool, St, size)
        fit == IF c = "none" THEN {}
               ELSE {i \in 1..Len(pool.slots[c]) : Fits(c, i, size)}
    IN IF fit # {}
         THEN \E i \in fit :
                /\ \A j \in fit : i <= j
                /\ r.err = ErrNone
                /\ r.addr = pool.slots[c][i].addr
                /\ r.pool.slots = [pool.slots EXCEPT ![c][i].used = TRUE]
                /\ r.pool.stats.PoolHits = pool.stats.PoolHits + 1
                /\ r.pool.stats.PoolMisses = pool.stats.PoolMisses
                /\ r.st = St
         ELSE LET d == AllocatorAllocate(St, size) IN
              /\ r.pool.slots = pool.slots
              /\ r.pool.stats.PoolMisses = pool.stats.PoolMisses + 1
              /\ r.pool.stats.PoolHits = pool.stats.PoolHits
              /\ r.st = d.st /\ r.addr = d.addr /\ r.err = d.err

C13_Witness ==
  /\ last.op = "PoolAllocate"
  /\ last.err = ErrNone
  /\ pool.stats.PoolHits > 0
  /\ pool.stats.PoolMisses > 0
  /\ \E c \in PoolClasses : \E i \in 1..Len(pool.slots[c]) : \E j \in 1..Len(pool.slots[c]) :
       i < j /\ ~pool.slots[c][i].used /\ pool.slots[c][j].used

\* the slots in use
UsedSlots ==
  {<<c, i>> \in PoolClasses \X (1..MediumPoolSize) :
     i <= Len(pool.slots[c]) /\ pool.slots[c][i].used}

\* C14: for every held address a got by a pool hit for size r, Free(a, r) is a
\* pool free hit: it clears the in-use flag of that slot, of the class of r,
\* and does not call the Allocator; PoolHits - PoolFreeHits is the number of
\* slots in use and of held pool-hit allocations, so that once all of them are
\* freed PoolFreeHits = PoolHits and no slot is in use.
C14_PoolFreeHit ==
  /\ \A a \in held :
       a.hit =>
         LET c == ClaimClass(a.size)
             r == PoolFree(pool, St, a.addr, a.size)
         IN /\ r.hit
            /\ r.err = ErrNone
            /\ r.st = St
            /\ r.pool.stats.PoolFreeHits = pool.stats.PoolFreeHits + 1
            /\ r.pool.stats.PoolFreeMisses = pool.stats.PoolFreeMisses
            /\ \E i \in 1..Len(pool.slots[c]) :
                 /\ pool.slots[c][i].addr = a.addr
                 /\ pool.slots[c][i].used
                 /\ r.pool.slots = [pool.slots EXCEPT ![c][i].used = FALSE]
  /\ pool.stats.PoolHits - pool.stats.PoolFreeHits = Cardinality({a \in held : a.hit})
  /\ Cardinality(UsedSlots) = Cardinality({a \in held : a.hit})

C14_Witness ==
  /\ last.op = "PoolFree"
  /\ last.err = ErrNone
  /\ pool.stats.PoolHits >= 2
  /\ pool.stats.PoolFreeHits = pool.stats.PoolHits
  /\ UsedSlots = {}

\* every slot of the pool
AllSlots == pool.slots["small"] \o pool.slots["medium"] \o pool.slots["large"]

\* the allocation of a slot is live: a cell of a slab for a size up to
\* SlabMaxSize, an allocated block of buddy above
IsAllocated(st, slot) ==
  IF slot.size <= SlabMaxSize
    THEN \E i \in 1..Len(st.cache[slot.size]) :
           MapHas(st.cache[slot.size][i].allocated, slot.addr)
    ELSE MapHas(BuddyAllocated(st.regions), slot.addr)

\* C15: Close frees every slot to the Allocator with its recorded size, in use
\* or not, and succeeds; when no allocation the pool delegated (and none made
\* next to the pool) is outstanding, GetUsedSize() is 0 after Close.
C15_Close ==
  /\ Open =>
       LET c == PoolClose(pool, St) IN
       /\ c.err = ErrNone
       /\ \A i \in 1..Len(AllSlots) : (IsAllocated(St, AllSlots[i]) /\ ~IsAllocated(c.st, AllSlots[i]))
       /\ ((\A a \in held : a.hit) /\ live = {}) => GetUsedSize(c.st) = 0
  /\ (last.op = "Close" /\ (\A a \in held : a.hit) /\ live = {}) =>
       (last.err = ErrNone /\ GetUsedSize(St) = 0)

C15_Witness ==
  /\ last.op = "Close"
  /\ last.err = ErrNone
  /\ held # {}
  /\ \A a \in held : a.hit
  /\ UsedSlots # {}
  /\ live = {}
  /\ pool.stats.PoolMisses > 0
  /\ GetUsedSize(St) = 0

\* the thread is inside the code of package hybrid
InAllocator(t) ==
  /\ stack[t] # <<>>
  /\ Head(stack[t]).pc \notin {"pool.Allocate.Lock", "pool.Free.Lock", "pool.Unlock"}

\* C16: a thread that runs inside the Allocator does not hold the pool mutex:
\* on a miss MemoryPool.Allocate and MemoryPool.Free have released p.mu before
\* they call the Allocator, so another thread can do its pool scan meanwhile.
C16_PoolLockReleased == \A t \in Callers : InAllocator(t) => mu # t

\* the pcs at which a thread waits for a lock
PoolLockPcs == {"pool.Allocate.Lock", "pool.Free.Lock"}
SlabLockPcs == {"slab.Allocate.Lock", "slab.Free.Lock", "slab.GetFreeSize.RLock"}
RegionLockPcs == {"buddy.Allocate.Lock", "buddy.Free.Lock",
                  "buddy.GetUsedSize.RLock", "buddy.GetMemoryUsage.RLock"}

HoldsRegion(t) == \E i \in RegionIds : regionMutex[i].w = t \/ t \in regionMutex[i].r
HoldsSlab(t) == slabMutex.w = t \/ t \in slabMutex.r

\* the thread has called Lock or RLock and has not got the lock yet
WaitsForPool(t) == stack[t] # <<>> /\ Head(stack[t]).pc \in PoolLockPcs
WaitsForSlab(t) ==
  stack[t] # <<>> /\ Head(stack[t]).pc \in SlabLockPcs /\ t \notin slabMutex.r
WaitsForRegion(t) ==
  /\ stack[t] # <<>>
  /\ Head(stack[t]).pc \in RegionLockPcs
  /\ t \notin regionMutex[Head(stack[t]).i].r

\* locks nest only in the order pool, slab, region, and a thread that holds a
\* region lock waits for no lock
LockOrder ==
  /\ \A t \in Callers :
       /\ HoldsRegion(t) => ~WaitsForPool(t) /\ ~WaitsForSlab(t) /\ ~WaitsForRegion(t)
       /\ HoldsSlab(t) => ~WaitsForPool(t) /\ ~WaitsForSlab(t)
  /\ \A i \in RegionIds : regionMutex[i].w = RunId => run[i] = "merge"

\* C17: locks are nested only in the order pool -> slab -> buddy, nobody waits
\* for a lock or for room in a merge queue while holding a region lock, and
\* every call of every thread eventually returns.
C17_NoDeadlock ==
  /\ []LockOrder
  /\ \A t \in Callers : (stack[t] # <<>>) ~> (stack[t] = <<>>)

C17_Witness ==
  /\ \E t \in Callers : mu = t /\ slabMutex.w = t /\ At(t, "buddy.Free.locked")
                        /\ queued[Head(stack[t]).i] = mergeBatchSize
                        /\ run[Head(stack[t]).i] = "Lock"
  /\ \E t \in Callers : At(t, "pool.Allocate.Lock")

\* C18: GetUsedSize and GetMemoryUsage read the slab cache and the regions
\* only under the reader lock of the layer, so never while a writer is inside
\* the critical section.
C18_ReadsUnderReaderLock ==
  \A t \in Callers :
    /\ (At(t, "slab.GetFreeSize.read") \/ At(t, "Allocator.GetMemoryUsage.cache")) =>
         (t \in slabMutex.r /\ slabMutex.w = 0)
    /\ (At(t, "buddy.GetUsedSize.read") \/ At(t, "buddy.GetMemoryUsage.read")) =>
         (t \in regionMutex[Head(stack[t]).i].r /\ regionMutex[Head(stack[t]).i].w = 0)

\* C19: every successful Allocate of a size above SlabMaxSize raises
\* GetUsedSize() by at least the size, and the Free of the address with that
\* size succeeds and brings GetUsedSize() back to what it was before.
C19_BuddyUsedSize ==
  \A size \in ProbeSizes :
    LET r == AllocatorAllocate(St, size)
        f == AllocatorFree(r.st, r.addr, size)
    IN (size > SlabMaxSize /\ r.err = ErrNone) =>
         /\ U64(GetUsedSize(r.st) - GetUsedSize(St)) >= size
         /\ f.err = ErrNone
         /\ GetUsedSize(f.st) = GetUsedSize(St)

\* the results of n consecutive calls of Allocator.Allocate(size) from st on
RECURSIVE AllocateTimes(_, _, _)
AllocateTimes(st, size, n) ==
  IF n = 0 THEN <<>>
  ELSE LET r == AllocatorAllocate(st, size) IN <<r>> \o AllocateTimes(r.st, size, n - 1)

\* the live cells of the slabs of one size
LiveCells(c, size) == SeqSum([i \in 1..Len(c[size]) |-> Cardinality(c[size][i].allocated)])

\* no slab of the cache c holds more cells than fit into SlabMaxSize
CellsFit(c) ==
  \A size \in CellSizes : \A i \in 1..Len(c[size]) :
    Cardinality(c[size][i].allocated) <= SlabMaxSize \div size

\* C20: consecutive successful Allocate(s) with one size s <= SlabMaxSize
\* return pairwise distinct addresses; no slab ever holds more than
\* floor(SlabMaxSize / s) live cells, so as soon as more cells of size s than
\* that are live there are at least two slabs of that size.
C20_SameSizeDistinct ==
  /\ CellsFit(cache)
  /\ \A size \in CellSizes :
       LET rs == AllocateTimes(St, size, MaxConsecutive) IN
       /\ \A j, k \in 1..MaxConsecutive :
            (j < k /\ \A m \in 1..k : rs[m].err = ErrNone) => rs[j].addr # rs[k].addr
       /\ \A k \in 1..MaxConsecutive :
            /\ CellsFit(rs[k].st.cache)
            /\ LiveCells(rs[k].st.cache, size) > SlabMaxSize \div size =>
                 Len(rs[k].st.cache[size]) >= 2

\* the allocation of size SlabMaxSize that follows a live one lies in a
\* second slab
C20_Witness ==
  /\ last.op = "Allocate" /\ last.err = ErrNone /\ last.size = SlabMaxSize
  /\ Len(cache[SlabMaxSize]) >= 2
  /\ \A i \in 1..Len(cache[SlabMaxSize]) : Cardinality(cache[SlabMaxSize][i].allocated) = 1
  /\ AllocateTimes(St, 1, MaxConsecutive)[MaxConsecutive].err = ErrNone

\* from regs to st.regions one block of SlabMaxSize was taken from region i,
\* for a slab that st.cache lists last under size and that c does not have
TookSlabBlock(regs, c, st, size, i) ==
  LET new == st.regions[i].allocated \ regs[i].allocated IN
  /\ \A j \in RegionIds \ {i} : st.regions[j] = regs[j]
  /\ regs[i].allocated \subseteq st.regions[i].allocated
  /\ Cardinality(new) = 1
  /\ \A e \in new :
       /\ e.size = SlabMaxSize
       /\ Len(st.cache[size]) = Len(c[size]) + 1
       /\ st.cache[size][Len(st.cache[size])].start = e.start
       /\ st.cache[size][Len(st.cache[size])].size = SlabMaxSize
  /\ st.regions[i].used = regs[i].used + SlabMaxSize
  /\ st.regions[i].mergeChan = regs[i].mergeChan

\* C21: Allocate and Free with a size above SlabMaxSize leave the slab cache
\* as it is; Allocate with a size up to SlabMaxSize leaves the buddy regions as
\* they are or takes exactly one block of SlabMaxSize, for a new slab.
C21_Routing ==
  /\ \A size \in ProbeSizes :
       LET r == AllocatorAllocate(St, size) IN
       /\ size > SlabMaxSize => r.st.cache = cache
       /\ size <= SlabMaxSize =>
            \/ r.st.regions = regions
            \/ \E i \in RegionIds : TookSlabBlock(regions, cache, r.st, size, i)
  /\ \A addr \in ProbeAddrs \cup {a.addr : a \in live} :
       \A size \in ProbeSizes :
         size > SlabMaxSize => AllocatorFree(St, addr, size).st.cache = cache

\* a request of SlabMaxSize was served while slabs and direct buddy blocks are
\* live, and the next one of that size needs a new slab
C21_Witness ==
  /\ last.op = "Allocate" /\ last.err = ErrNone /\ last.size = SlabMaxSize
  /\ \E a \in live : a.size > SlabMaxSize
  /\ \E k \in CellSizes : cache[k] # <<>>
  /\ AllocatorAllocate(St, SlabMaxSize).st.regions # regions

\* some region has a free block of order k or above
HasFreeBlock(regs, k) ==
  \E i \in RegionIds : \E o \in Orders : o >= k /\ regs[i].blocks[o] # <<>>

\* C22: BuddyAllocator.Allocate(size), for a size whose order k (the smallest
\* with BuddyStartSize << k >= size) is at most MaxOrder, returns
\* ErrNoSpaceAvailable exactly when no region has a free block of order k or
\* above, and succeeds otherwise.
C22_NoSpaceIff ==
  \A size \in ProbeSizes :
    CeilOrder(size) <= MaxOrder =>
      LET b == BuddyAllocate(regions, size) IN
      IF HasFreeBlock(regions, CeilOrder(size))
        THEN b.err = ErrNone
        ELSE b.err = ErrNoSpaceAvailable

\* no merge request of region i is queued or in the hands of its goroutine
RegionQuiet(i) == regions[i].mergeChan = <<>> /\ runReq[i] = <<>>

\* region i holds one free block, of the order of the region size, at its
\* start, and no other free block
RegionWhole(i) ==
  regions[i].blocks =
    [o \in Orders |->
       IF o = getOrder(regions[i].endAddr - regions[i].startAddr)
         THEN <<regions[i].startAddr>> ELSE <<>>]

\* C23: once every allocated block of a region has been freed, the goroutine
\* of the region gets through every queued merge request (unless the region is
\* allocated from again first), and while nothing is allocated and nothing is
\* queued the region holds exactly one free block, of its top order.
C23_MergeCompletes ==
  /\ \A i \in RegionIds :
       (regions[i].allocated = {}) ~>
         (regions[i].allocated # {} \/ (RegionQuiet(i) /\ RegionWhole(i)))
  /\ [](\A i \in RegionIds :
          (regions[i].allocated = {} /\ RegionQuiet(i)) => RegionWhole(i))

\* three blocks of region 0 were allocated and freed again, the region is split
\* and the merge requests are still to be processed
C23_Witness ==
  /\ calls >= 6
  /\ last.op = "Free"
  /\ regions[0].allocated = {}
  /\ ~RegionQuiet(0)
  /\ ~RegionWhole(0)

\* the sum of the sizes of the accepted requests
Accepted == SumOver([a \in live |-> a.size], live)

\* what a filling run can leave unused: one block of BuddyStartSize a region
WasteBound == buddyRegionCount * BuddyStartSize

\* the constants of the source, sizes in MiB
SourceRegionCount == 8
SourceMaxOrder == 20
SourceTotalMiB == 2 ^ SourceMaxOrder

\* C24: when a run of Allocate(1 MiB), Allocate(2 MiB), Allocate(1 MiB), ... on
\* a fresh allocator meets its first NoSpace, the accepted sizes add up to the
\* whole space less at most one 1 MiB block a region; with the 8 regions and
\* the 1 TiB of the source that is more than 0.95 of the space.
C24_FillRatio ==
  /\ (Alternating /\ last.err = ErrNoSpaceAvailable) =>
       Accepted * UnitBytes >= GetTotalSize - WasteBound * UnitBytes
  /\ 100 * (SourceTotalMiB - SourceRegionCount) >= 95 * SourceTotalMiB

\* the alternating run has met its first NoSpace, with requests accepted from
\* both regions
C24_Witness ==
  /\ calls > 0
  /\ last.alt
  /\ last.err = ErrNoSpaceAvailable
  /\ \A i \in RegionIds : regions[i].allocated # {}
  /\ Accepted > 0

\* the bytes in the free lists of all regions
FreeBytes(regs) ==
  UnitBytes *
    SumOver([i \in RegionIds |->
               SumOver([o \in Orders |-> Len(regs[i].blocks[o]) * BlockSize(o)], Orders)],
            RegionIds)

\* C25: GetTotalSize returns BuddyStartSize << MaxOrder, and that is the sum of
\* the sizes of the free blocks NewBuddyAllocator creates.
C25_TotalSize ==
  /\ GetTotalSize = (BuddyStartSize * UnitBytes) * (2 ^ MaxOrder)
  /\ GetTotalSize = FreeBytes(NewBuddyAllocator)
  /\ calls = 0 => FreeBytes(regions) = GetTotalSize

\* the allocator as constructed: one free block a region, nothing allocated
C25_Witness ==
  /\ calls = 0
  /\ regions = NewBuddyAllocator
  /\ \A i \in RegionIds : FreeSets(regions)[i][MaxOrder - 1] = {regions[i].startAddr}
  /\ FreeBytes(regions) = MaxBlockSize * UnitBytes

\* the free sets after a block at addr of order k was cut out of the free block
\* at addr of order j of region i: the block has left order j, and every order
\* from k to j - 1 has gained the upper half at addr + BlockSize(order)
SplitSets(regs, i, j, k, addr) ==
  [r \in RegionIds |-> [o \in Orders |->
     IF r # i THEN FreeSets(regs)[r][o]
     ELSE IF o = j THEN FreeSets(regs)[r][o] \ {addr}
     ELSE IF o \in k..(j - 1) THEN FreeSets(regs)[r][o] \cup {addr + BlockSize(o)}
     ELSE FreeSets(regs)[r][o]]]

\* C26: an allocation of order k takes the head of a free list of the lowest
\* order j >= k at which any free block exists, returns its start, and leaves
\* one new free block at every order from k to j - 1, at start + size of that
\* order; no other free block changes.
C26_LowestOrderSplit ==
  \A size \in ProbeSizes :
    LET k == getOrder(size)
        b == BuddyAllocate(regions, size)
    IN (k <= MaxOrder /\ b.err = ErrNone) =>
         LET j == Min({o \in k..MaxOrder :
                        \E i \in RegionIds : regions[i].blocks[o] # <<>>})
         IN \E i \in RegionIds :
              /\ regions[i].blocks[j] # <<>>
              /\ b.addr = Head(regions[i].blocks[j])
              /\ FreeSets(b.regions) = SplitSets(regions, i, j, k, b.addr)

\* the starts of all free blocks of order o
AllFree(regs, o) == UNION {FreeSets(regs)[i][o] : i \in RegionIds}

\* no two free blocks of an order below top are each other's buddy
NoFreeBuddies(regs, top) ==
  \A o \in 0..(top - 1) : \A a \in AllFree(regs, o) :
    XorBit(a, BlockSize(o)) \notin AllFree(regs, o)

\* the order of a whole region
RegionOrder == getOrder(MaxBlockSize \div buddyRegionCount)

C28_BlocksAligned ==
  /\ \A i \in RegionIds : \A o \in Orders : \A a \in FreeSets(regions)[i][o] :
       a % BlockSize(o) = 0
  /\ \A i \in RegionIds : \A e \in regions[i].allocated :
       \E k \in Orders : e.size = BlockSize(k) /\ e.start % BlockSize(k) = 0

\* after a Free and its merge, a region holds an allocated block and a free
\* block that both start inside the region, not at its start
C28_Witness ==
  /\ Quiescent
  /\ last.op = "Free"
  /\ \E i \in RegionIds :
       /\ \E e \in regions[i].allocated : e.start # regions[i].startAddr
       /\ \E o \in Orders : \E a \in FreeSets(regions)[i][o] : a # regions[i].startAddr
       /\ \E o \in Orders : regions[i].startAddr \in FreeSets(regions)[i][o]

\* C29: when a Free of a buddy block has returned without error, the block (or
\* what it was merged into) is in a free list: an Allocate of the size that was
\* freed, started in any later state, does not fail for lack of space.
C29_FreeSynchronous ==
  (last.op = "Free" /\ last.err = ErrNone /\ last.size > SlabMaxSize) =>
    BuddyAllocate(regions, last.size).err # ErrNoSpaceAvailable

\* every slab of the cache c is SlabMaxSize long; its live cells have the size
\* it is listed under, start at slab.start + i * size, end inside the slab and
\* do not overlap; slab.used is size times the number of live cells and at
\* most SlabMaxSize
SlabsWellFormed(c) ==
  \A size \in CellSizes : \A i \in 1..Len(c[size]) :
    LET slab == c[size][i] IN
    /\ slab.size = SlabMaxSize
    /\ \A e \in slab.allocated :
         /\ e.size = size
         /\ e.start >= slab.start
         /\ (e.start - slab.start) % size = 0
         /\ e.start + e.size <= slab.start + slab.size
    /\ \A e1, e2 \in slab.allocated :
         e1 # e2 => (e1.start + e1.size <= e2.start \/ e2.start + e2.size <= e1.start)
    /\ slab.used = size * Cardinality(slab.allocated)
    /\ slab.used <= SlabMaxSize

\* C30: in every reachable state, and after up to MaxConsecutive further
\* Allocate calls of any one size up to SlabMaxSize, every slab holds live
\* cells of its own size only, at slab.start + i * size, inside the slab and
\* disjoint, and its used count is size times the number of its live cells.
C30_SlabsWellFormed ==
  /\ SlabsWellFormed(cache)
  /\ \A size \in CellSizes : \A k \in 1..MaxConsecutive :
       SlabsWellFormed(AllocateTimes(St, size, MaxConsecutive)[k].st.cache)

\* three cells of the smallest size were taken from one slab and the first one
\* freed: the slab holds two live cells, neither at its start
C30_Witness ==
  /\ last.op = "Free"
  /\ last.err = ErrNone
  /\ \E i \in 1..Len(cache[1]) :
       /\ Cardinality(cache[1][i].allocated) = 2
       /\ cache[1][i].used = 2
       /\ \A e \in cache[1][i].allocated : e.start # cache[1][i].start

\* no free-cell list of the cache c names the start of a live cell of its slab
FreeListClean(c) ==
  \A size \in CellSizes : \A i \in 1..Len(c[size]) :
    \A e \in c[size][i].allocated : e.start \notin Range(c[size][i].freeList)

\* C31: a successful slab allocation appends nothing to the free-cell list of
\* a slab: in the slab that gives the cell the list loses one entry or stays as
\* it is, and no free-cell list ever names the start of a live cell.
C31_FreeListNotAppended ==
  /\ FreeListClean(cache)
  /\ \A size \in CellSizes :
       LET r == AllocatorAllocate(St, size) IN
       r.err = ErrNone =>
         /\ FreeListClean(r.st.cache)
         /\ \A i \in 1..Len(cache[size]) :
              Len(r.st.cache[size][i].freeList) <= Len(cache[size][i].freeList)

\* no free list of the regions regs holds a start twice
NoDuplicateFree(regs) ==
  \A i \in RegionIds : \A o \in Orders :
    Cardinality(Range(regs[i].blocks[o])) = Len(regs[i].blocks[o])

LiveSlabStarts(c) ==
  UNION {{c[size][i].start : i \in {j \in 1..Len(c[size]) : c[size][j].allocated # {}}} :
         size \in CellSizes}

\* C33: a Free of a live allocation with a size other than the one it was
\* allocated with returns an error and leaves regions and cache as they are;
\* the block of a slab with live cells stays allocated in buddy.
C33_WrongSizeFreeRejected ==
  \A a \in live : \A size \in ProbeSizes \ {a.size} :
    LET f == AllocatorFree(St, a.addr, size) IN
    /\ f.err # ErrNone
    /\ f.st = St
    /\ \A b \in LiveSlabStarts(cache) :
         \E e \in BuddyAllocated(f.st.regions) : e.start = b

\* sizes whose order, as getOrder computes it, exceeds MaxOrder
TooLargeSizes == {size \in (2 * MaxBlockSize)..(2 * MaxBlockSize + BuddyStartSize) :
                    getOrder(size) > MaxOrder}

\* C34: BuddyAllocator.Allocate of a size whose order exceeds MaxOrder returns
\* ErrSizeTooLarge and leaves the regions as they are.
C34_SizeTooLarge ==
  \A size \in TooLargeSizes :
    LET b == BuddyAllocate(regions, size) IN
    /\ b.err = ErrSizeTooLarge
    /\ b.regions = regions

\* the recorded address and size of every slot of the pool p
SlotIdentity(p) ==
  [c \in PoolClasses |->
     [i \in 1..Len(p.slots[c]) |-> [addr |-> p.slots[c][i].addr,
                                    size |-> p.slots[c][i].size]]]

\* the classes with a slot that is not in use
FreeClasses(p) ==
  {c \in PoolClasses : \E i \in 1..Len(p.slots[c]) : ~p.slots[c][i].used}

SlotAddrs == {AllSlots[i].addr : i \in 1..Len(AllSlots)}

\* every slot of the pool is a live allocation in the allocator state st
SlotsAllocated(st) == \A i \in 1..Len(AllSlots) : IsAllocated(st, AllSlots[i])

\* C36: until Close every slot of the pool stays a live allocation of the
\* Allocator, before and after any MemoryPool.Allocate and any MemoryPool.Free
\* of a held allocation, and no delegated allocation (and none made next to
\* the pool) has the address of a slot.
C36_SlotsStayAllocated ==
  Open =>
    /\ SlotsAllocated(St)
    /\ \A a \in held : ~a.hit => a.addr \notin SlotAddrs
    /\ \A a \in live : a.addr \notin SlotAddrs
    /\ \A size \in PoolProbeSizes :
         LET r == PoolAllocate(pool, St, size) IN
         /\ SlotsAllocated(r.st)
         /\ (r.err = ErrNone /\ ~r.hit) => r.addr \notin SlotAddrs
    /\ \A a \in held : SlotsAllocated(PoolFree(pool, St, a.addr, a.size).st)

\* after a MemoryPool.Free, a delegated allocation of the size of a slot is
\* held next to an allocation served from a slot
C36_Witness ==
  /\ Open
  /\ last.op = "PoolFree"
  /\ last.err = ErrNone
  /\ \E a \in held : \E b \in held :
       /\ a.hit /\ ~b.hit
       /\ \E i \in 1..Len(AllSlots) : AllSlots[i].size = b.size
  /\ pool.stats.PoolFreeHits > 0
  /\ pool.stats.PoolFreeMisses > 0

\* the blocks of region i: the entries of its free lists, of its allocated
\* map, of its mergeChan and the request its goroutine has received, each with
\* its kind and its place so that no two entries fall together
RegionPieces(i) ==
  LET r == regions[i] IN
  UNION {{[kind |-> "free", at |-> <<o, j>>, start |-> r.blocks[o][j], size |-> BlockSize(o)] :
            j \in 1..Len(r.blocks[o])} : o \in Orders}
  \cup {[kind |-> "allocated", at |-> <<>>, start |-> e.start, size |-> e.size] :
          e \in r.allocated}
  \cup {[kind |-> "queued", at |-> <<j>>, start |-> r.mergeChan[j].start,
          size |-> r.mergeChan[j].size] : j \in 1..Len(r.mergeChan)}
  \cup {[kind |-> "received", at |-> <<j>>, start |-> runReq[i][j].start,
          size |-> runReq[i][j].size] : j \in 1..Len(runReq[i])}

Pieces == UNION {RegionPieces(i) : i \in RegionIds}

\* C37: the free blocks, the allocated blocks and the blocks whose merge is
\* still to be carried out are pairwise disjoint, lie in the managed range and
\* their sizes add up to MaxBlockSize, so they cover it exactly; the used
\* counter of every region is the sum of the sizes of its allocated blocks.
C37_SpaceConserved ==
  /\ \A p \in Pieces : \A q \in Pieces :
       p # q => (p.start + p.size <= q.start \/ q.start + q.size <= p.start)
  /\ \A p \in Pieces : p.start >= 0 /\ p.start + p.size <= MaxBlockSize
  /\ SumOver([p \in Pieces |-> p.size], Pieces) = MaxBlockSize
  /\ \A i \in RegionIds :
       regions[i].used =
         SumOver([e \in regions[i].allocated |-> e.size], regions[i].allocated)

\* blocks of all four kinds exist at once: free, allocated, queued in
\* mergeChan and received by a goroutine
C37_Witness ==
  /\ \E p \in Pieces : p.kind = "queued"
  /\ \E p \in Pieces : p.kind = "received"
  /\ \E p \in Pieces : p.kind = "allocated"
  /\ \E p \in Pieces : p.kind = "free"

\* C38: a GetUsedSize that reads the buddy used size, lets one step of another
\* goroutine pass and then reads the slab free size does not wrap around: its
\* result is at most the managed size; the same for a GetUsedSize that no step
\* interrupts.
C38_UsedSizeNoWrap ==
  /\ [](GetUsedSize(St) <= MaxBlockSize)
  /\ [][U64(BuddyGetUsedSize(regions) - SlabGetFreeSize(cache')) <= MaxBlockSize]_vars

\* the slabs of cache[size] that pass "slab.used + size <= slab.size"
WithRoom(c, size) == {i \in 1..Len(c[size]) : c[size][i].used + size <= c[size][i].size}

\* C39: SlabAllocator.Allocate of a size up to SlabMaxSize fails only with
\* ErrNoSpaceAvailable and only when no slab of the size has room and buddy has
\* no block for a new slab; in every slab that has room findFreeSpace finds a
\* cell, and that cell is not in the slab's allocated map.
C39_SlabAllocateFinds ==
  \A size \in CellSizes :
    /\ \A i \in WithRoom(cache, size) :
         LET res == findFreeSpace(cache[size][i], size) IN
         /\ res.found
         /\ ~MapHas(cache[size][i].allocated, res.start)
    /\ LET r == SlabAllocate(St, size) IN
       r.err # ErrNone =>
         /\ r.err = ErrNoSpaceAvailable
         /\ WithRoom(cache, size) = {}
         /\ BuddyAllocate(regions, SlabMaxSize).err = ErrNoSpaceAvailable

\* after a Free, a slab of the smallest size has a hole at its start and live
\* cells behind it, one of them still named in the free-cell list; the next
\* cell is found
C39_Witness ==
  /\ last.op = "Free"
  /\ last.err = ErrNone
  /\ \E i \in WithRoom(cache, 1) :
       LET slab == cache[1][i] IN
       /\ slab.allocated # {}
       /\ ~MapHas(slab.allocated, slab.start)
       /\ \E e \in slab.allocated : e.start \in Range(slab.freeList)
       /\ findFreeSpace(slab, 1).found

\* C40: every block of a region, free, allocated or waiting for its merge,
\* lies inside [startAddr, endAddr) of the region; no free block is larger
\* than a region; Free(start) of an allocated block finds it in the region
\* that holds it and changes no other region.
C40_RegionsClosed ==
  /\ \A i \in RegionIds : \A p \in RegionPieces(i) :
       regions[i].startAddr <= p.start /\ p.start + p.size <= regions[i].endAddr
  /\ \A i \in RegionIds : \A o \in Orders :
       o > RegionOrder => regions[i].blocks[o] = <<>>
  /\ \A i \in RegionIds : \A e \in regions[i].allocated :
       LET f == BuddyFree(regions, e.start) IN
       /\ f.err = ErrNone
       /\ ~MapHas(f.regions[i].allocated, e.start)
       /\ \A j \in RegionIds \ {i} : f.regions[j] = regions[j]

\* both regions have blocks allocated, and region 0, freed in part and merged,
\* has a free block that ends at the border to region 1 while region 1 has a
\* free block too
C40_Witness ==
  /\ last.op = "Free"
  /\ Quiescent
  /\ \A i \in RegionIds : regions[i].allocated # {}
  /\ \E p \in RegionPieces(0) : p.kind = "free" /\ p.start + p.size = regions[0].endAddr
  /\ \E p \in RegionPieces(1) : p.kind = "free"

====
